---- MODULE Spec2Model ----
(***************************************************************************)
(* Model of core.py: DeepScanner (setup_path, scan, build_markdown,        *)
(* cleanup) and generate_readme.  Text is modelled character by character  *)
(* with the Python str methods the code calls; Python values that JSON can *)
(* put into the metadata are tagged records.                               *)
(***************************************************************************)
EXTENDS Integers, Sequences, FiniteSets, TLC

(***************************************************************************)
(* Python str methods used by core.py                                      *)
(***************************************************************************)
Ch(s, i) == SubSeq(s, i, i)

\* s[i-1:j], a slice that stops at the end of s
Slice(s, i, j) == IF i > Len(s) THEN "" ELSE SubSeq(s, i, IF j > Len(s) THEN Len(s) ELSE j)

Whitespace == {" ", "\t", "\n", "\r"}

StartsWith(s, p) == Len(p) <= Len(s) /\ SubSeq(s, 1, Len(p)) = p

EndsWith(s, p) == Len(p) <= Len(s) /\ SubSeq(s, Len(s) - Len(p) + 1, Len(s)) = p

\* s.find(sub) + 1 : index of the first occurrence of sub in s, 0 if none
Find(s, sub) ==
    LET hits == {i \in 1..(Len(s) - Len(sub) + 1) : SubSeq(s, i, i + Len(sub) - 1) = sub}
    IN IF hits = {} THEN 0 ELSE CHOOSE i \in hits : \A j \in hits : i <= j

Contains(s, sub) == Find(s, sub) # 0

\* s.split(sep)[0]
SplitFirst(s, sep) ==
    LET i == Find(s, sep) IN IF i = 0 THEN s ELSE SubSeq(s, 1, i - 1)

\* s.split(sep) as a sequence of strings
RECURSIVE Split(_, _)
Split(s, sep) ==
    LET i == Find(s, sep)
    IN IF i = 0 THEN <<s>>
       ELSE <<SubSeq(s, 1, i - 1)>> \o Split(SubSeq(s, i + Len(sep), Len(s)), sep)

\* s.replace(old, new), old non-empty
RECURSIVE Replace(_, _, _)
Replace(s, old, new) ==
    LET i == Find(s, old)
    IN IF i = 0 THEN s
       ELSE SubSeq(s, 1, i - 1) \o new \o Replace(SubSeq(s, i + Len(old), Len(s)), old, new)

\* s.strip()
Strip(s) ==
    LET keep == {i \in 1..Len(s) : Ch(s, i) \notin Whitespace}
    IN IF keep = {} THEN ""
       ELSE SubSeq(s, CHOOSE i \in keep : \A j \in keep : i <= j,
                      CHOOSE i \in keep : \A j \in keep : i >= j)

\* s.rstrip(c) for a single character c
RStrip(s, c) ==
    LET keep == {i \in 1..Len(s) : Ch(s, i) # c}
    IN IF keep = {} THEN ""
       ELSE SubSeq(s, 1, CHOOSE i \in keep : \A j \in keep : i >= j)

\* seq[-1] and seq[-2] of a Python list
Last(q) == q[Len(q)]


Lowercase == "abcdefghijklmnopqrstuvwxyz"
Uppercase == "ABCDEFGHIJKLMNOPQRSTUVWXYZ"
Digits == "0123456789"

CharsOf(s) == {Ch(s, i) : i \in 1..Len(s)}

\* the characters matched by \w
WordChars == CharsOf(Lowercase) \cup CharsOf(Uppercase) \cup CharsOf(Digits) \cup {"_"}

IndexIn(alphabet, c) == CHOOSE i \in 1..Len(alphabet) : Ch(alphabet, i) = c

LowerCh(c) == IF c \in CharsOf(Uppercase) THEN Ch(Lowercase, IndexIn(Uppercase, c)) ELSE c

UpperCh(c) == IF c \in CharsOf(Lowercase) THEN Ch(Uppercase, IndexIn(Lowercase, c)) ELSE c

IsLetter(c) == c \in CharsOf(Lowercase) \cup CharsOf(Uppercase)

\* s.lower()
RECURSIVE Lower(_)
Lower(s) == IF s = "" THEN "" ELSE LowerCh(Ch(s, 1)) \o Lower(SubSeq(s, 2, Len(s)))

\* s.title(): a letter after a non-letter is upper-cased, every other letter lower-cased
RECURSIVE TitleFrom(_, _)
TitleFrom(s, i) ==
    IF i > Len(s) THEN ""
    ELSE LET c == Ch(s, i)
             first == i = 1 \/ ~IsLetter(Ch(s, i - 1))
         IN (IF first THEN UpperCh(c) ELSE LowerCh(c)) \o TitleFrom(s, i + 1)

Title(s) == TitleFrom(s, 1)

\* sep.join(q) for a sequence of strings
RECURSIVE Join(_, _)
Join(sep, q) ==
    IF Len(q) = 0 THEN ""
    ELSE IF Len(q) = 1 THEN q[1]
    ELSE q[1] \o sep \o Join(sep, Tail(q))

\* the set of elements of a sequence
Range(q) == {q[i] : i \in 1..Len(q)}

\* first index at or after i whose character is not in cs (Len(s) + 1 if none)
RunEnd(s, i, cs) ==
    LET stop == {j \in i..Len(s) : Ch(s, j) \notin cs}
    IN IF stop = {} THEN Len(s) + 1 ELSE CHOOSE j \in stop : \A k \in stop : j <= k

(***************************************************************************)
(* Python values that json.load can hand to the scanner                    *)
(***************************************************************************)
None == [t |-> "none"]
Str(s) == [t |-> "str", v |-> s]
Num(n) == [t |-> "num", v |-> n]
List(q) == [t |-> "list", v |-> q]
\* a dict is its sequence of <<key, value>> pairs in insertion order
Dict(pairs) == [t |-> "dict", v |-> pairs]

\* bool(x)
Truthy(x) ==
    CASE x.t = "none" -> FALSE
      [] x.t = "str" -> x.v # ""
      [] x.t = "num" -> x.v # 0
      [] x.t = "list" -> Len(x.v) > 0
      [] x.t = "dict" -> Len(x.v) > 0

\* a or b
Or(a, b) == IF Truthy(a) THEN a ELSE b

HasKey(d, k) == \E i \in 1..Len(d.v) : d.v[i][1] = k

\* d.get(k, default)
DictGet(d, k, default) ==
    IF HasKey(d, k)
    THEN d.v[CHOOSE i \in 1..Len(d.v) : d.v[i][1] = k][2]
    ELSE default

\* list(d.keys())
DictKeys(d) == [i \in 1..Len(d.v) |-> d.v[i][1]]

\* x has the method named: .get/.keys/.items on dict, .replace on str
IsDict(x) == x.t = "dict"
IsStr(x) == x.t = "str"

\* "k in x" is defined for containers only (TypeError otherwise)
SupportsIn(x) == x.t \in {"dict", "list", "str"}

\* k in x, for a str k
In(k, x) ==
    CASE x.t = "dict" -> HasKey(x, k)
      [] x.t = "list" -> \E i \in 1..Len(x.v) : x.v[i] = Str(k)
      [] x.t = "str" -> Contains(x.v, k)
      [] OTHER -> FALSE

\* repr(x) / str(x), as an f-string formats a value
RECURSIVE Repr(_)
RECURSIVE Format(_)
Repr(x) ==
    CASE x.t = "none" -> "None"
      [] x.t = "str" -> "'" \o x.v \o "'"
      [] x.t = "num" -> ToString(x.v)
      [] x.t = "list" -> "[" \o Join(", ", [i \in 1..Len(x.v) |-> Repr(x.v[i])]) \o "]"
      [] x.t = "dict" ->
           "{" \o Join(", ", [i \in 1..Len(x.v) |->
                    "'" \o x.v[i][1] \o "': " \o Repr(x.v[i][2])]) \o "}"

Format(x) == IF x.t = "str" THEN x.v ELSE Repr(x)

(***************************************************************************)
(* Configuration                                                           *)
(***************************************************************************)
STD_LIBS_python ==
    {"os", "sys", "re", "json", "math", "datetime", "time", "random",
     "subprocess", "typing", "collections", "threading", "asyncio",
     "logging", "argparse", "itertools", "functools", "pathlib", "http",
     "email", "enum", "statistics", "fractions"}

STD_LIBS_node ==
    {"fs", "path", "http", "https", "os", "util", "events", "crypto",
     "child_process", "cluster", "dns", "net", "stream", "querystring",
     "url", "zlib", "timers"}

IGNORE_DIRS ==
    {".git", "node_modules", "venv", ".env", "__pycache__",
     "dist", "build", "target", "vendor", ".idea", ".vscode",
     "coverage", ".next", "__mocks__", "assets", "bin", "obj", "out", ".settings"}

Langs == {"Python", "Node.js", "Java", "Go"}

\* sorted() of a set of language names (code-point order)
LangOrder == <<"Go", "Java", "Node.js", "Python">>

RECURSIVE SelectSeq2(_, _)
SelectSeq2(q, S) ==
    IF Len(q) = 0 THEN <<>>
    ELSE (IF Head(q) \in S THEN <<Head(q)>> ELSE <<>>) \o SelectSeq2(Tail(q), S)

SortedLangs(S) == SelectSeq2(LangOrder, S)


(***************************************************************************)
(* DeepScanner.__init__: the metadata record                               *)
(***************************************************************************)
InitialMetadata ==
    [project_name |-> Str(""),
     username |-> "username",
     repo_name |-> "repo",
     repo_url |-> "<repo_url>",
     languages |-> {},
     tech_stack |-> {},
     tech_stack_details |-> [frameworks |-> {}, databases |-> {}, auth |-> {}, cache |-> {}],
     dependencies |-> [l \in Langs |-> {}],
     scripts |-> Dict(<<>>),
     structure |-> "",
     description |-> Str(""),
     entry_point |-> None,
     entry_points |-> [l \in Langs |-> None],
     entry_point_cmd |-> None,
     license |-> "Unlicensed",
     tests |-> <<>>,
     build_tools |-> {},
     python_requirements_path |-> None,
     node_package_json_path |-> None,
     go_mod_path |-> None,
     services |-> <<>>,
     api_endpoints |-> <<>>,
     modules |-> <<>>,
     env_vars |-> {},
     docker |-> [dockerfile |-> FALSE, compose |-> FALSE],
     stats |-> [files |-> [l \in Langs |-> 0], test_files |-> 0,
                has_ci |-> FALSE, linting |-> {}]]

(***************************************************************************)
(* File contents.  A package.json is given by the value json.load returns  *)
(* for it, a requirements.txt by its lines (without the line terminator),  *)
(* a source file by its text; Malformed is a file whose read, decode or    *)
(* parse raises.                                                           *)
(***************************************************************************)
Malformed == [t |-> "malformed"]
Lines(q) == [t |-> "lines", v |-> q]
Text(s) == [t |-> "text", v |-> s]

\* the source files of the universe
PyMain == Text("import os\nimport flask.cli\nif __name__ == \"__main__\":\n    pass\n")
PyRelative == Text("from . import x\n")
PySetup == Text("from setuptools import setup\nsetup(name=\"p\")\n")
JavaApp == Text("import java.io.F;\nimport a.B;\nclass App{public static void main(String[] a){}}")
JavaTool == Text("class Tool{public static void main(String[] a){}}")
JsMain == Text("import express from \"express\"\nconst fs = require(\"fs\")\napp.listen(3000)\n")

NodeTestTools == {"jest", "mocha", "chai", "supertest"}
PythonTestTools == {"pytest", "unittest", "nose", "mock"}

\* a _parse_package_json that assigns the entries without the "if not" guards
_parse_package_json_lastWins(m, content) ==
    IF content = Malformed \/ ~IsDict(content) THEN m
    ELSE
    LET data == content
        name == DictGet(data, "name", None)
        main == DictGet(data, "main", None)
        m1 == IF Truthy(name) THEN [m EXCEPT !.project_name = name] ELSE m
        m2 == IF Truthy(main)
              THEN [m1 EXCEPT !.entry_points["Node.js"] = main, !.entry_point = main]
              ELSE m1
        depsV == DictGet(data, "dependencies", Dict(<<>>))
        devV == DictGet(data, "devDependencies", Dict(<<>>))
    IN  IF ~IsDict(depsV) \/ ~IsDict(devV) THEN m2
        ELSE
        LET deps == DictKeys(depsV)
            devDeps == DictKeys(devV)
            desc == DictGet(data, "description", None)
            m3 == [m2 EXCEPT !.dependencies["Node.js"] = @ \cup Range(deps),
                             !.scripts = DictGet(data, "scripts", Dict(<<>>))]
            m4 == IF Truthy(desc) THEN [m3 EXCEPT !.description = desc] ELSE m3
        IN  [m4 EXCEPT !.tests = @ \o SelectSeq(deps \o devDeps, LAMBDA d : d \in NodeTestTools)]

\* _parse_package_json: the metadata after the call (every exception is swallowed)
_parse_package_json(m, content) ==
    IF content = Malformed \/ ~IsDict(content) THEN m
    ELSE
    LET data == content
        name == DictGet(data, "name", None)
        main == DictGet(data, "main", None)
        m1 == IF Truthy(name) THEN [m EXCEPT !.project_name = name] ELSE m
        m2 == IF Truthy(main)
              THEN [m1 EXCEPT !.entry_points["Node.js"] = IF Truthy(@) THEN @ ELSE main,
                              !.entry_point = IF Truthy(@) THEN @ ELSE main]
              ELSE m1
        depsV == DictGet(data, "dependencies", Dict(<<>>))
        devV == DictGet(data, "devDependencies", Dict(<<>>))
    IN  IF ~IsDict(depsV) \/ ~IsDict(devV) THEN m2
        ELSE
        LET deps == DictKeys(depsV)
            devDeps == DictKeys(devV)
            desc == DictGet(data, "description", None)
            m3 == [m2 EXCEPT !.dependencies["Node.js"] = @ \cup Range(deps),
                             !.scripts = DictGet(data, "scripts", Dict(<<>>))]
            m4 == IF Truthy(desc) THEN [m3 EXCEPT !.description = desc] ELSE m3
        IN  [m4 EXCEPT !.tests = @ \o SelectSeq(deps \o devDeps, LAMBDA d : d \in NodeTestTools)]

\* the list comprehension of _parse_requirements
RequirementNames(lines) ==
    LET kept == SelectSeq(lines, LAMBDA line :
                    Strip(line) # "" /\ ~StartsWith(Strip(line), "#"))
    IN [i \in 1..Len(kept) |-> Strip(SplitFirst(kept[i], "=="))]

\* _parse_requirements
_parse_requirements(m, content) ==
    IF content = Malformed THEN m
    ELSE
    LET deps == RequirementNames(content.v)
    IN  [m EXCEPT !.dependencies["Python"] = @ \cup Range(deps),
                  !.tests = @ \o SelectSeq(deps, LAMBDA d : d \in PythonTestTools)]

\* one match of ^(?:from|import)\s+([\w\.]+) at position i (re.MULTILINE)
ImportMatchAt(c, i) ==
    LET atLineStart == i = 1 \/ Ch(c, i - 1) = "\n"
        kw == IF Slice(c, i, i + 3) = "from" THEN 4
              ELSE IF Slice(c, i, i + 5) = "import" THEN 6 ELSE 0
        j == i + kw
        k == RunEnd(c, j, Whitespace \cup {"\f"})
        e == RunEnd(c, k, WordChars \cup {"."})
    IN  [ok |-> atLineStart /\ kw > 0 /\ k > j /\ e > k,
         group |-> SubSeq(c, k, e - 1),
         end |-> e]

\* re.findall of the import pattern from position i on
RECURSIVE FindImports(_, _)
FindImports(c, i) ==
    IF i > Len(c) THEN <<>>
    ELSE LET mt == ImportMatchAt(c, i)
         IN IF mt.ok THEN <<mt.group>> \o FindImports(c, mt.end)
            ELSE FindImports(c, i + 1)

\* re.findall(r'class\s+(\w+)') from position i on
RECURSIVE FindClasses(_, _)
FindClasses(c, i) ==
    IF i > Len(c) THEN <<>>
    ELSE LET j == i + 5
             k == RunEnd(c, j, Whitespace \cup {"\f"})
             e == RunEnd(c, k, WordChars)
         IN IF Slice(c, i, i + 4) = "class" /\ k > j /\ e > k
            THEN <<SubSeq(c, k, e - 1)>> \o FindClasses(c, e)
            ELSE FindClasses(c, i + 1)

\* one match of import\s+([\w\.]+); at position i
JavaImportMatchAt(c, i) ==
    LET j == i + 6
        k == RunEnd(c, j, Whitespace \cup {"\f"})
        e == RunEnd(c, k, WordChars \cup {"."})
    IN  [ok |-> Slice(c, i, i + 5) = "import" /\ k > j /\ e > k /\ Slice(c, e, e) = ";",
         group |-> SubSeq(c, k, e - 1),
         end |-> e + 1]

\* re.findall of the Java import pattern from position i on
RECURSIVE FindJavaImports(_, _)
FindJavaImports(c, i) ==
    IF i > Len(c) THEN <<>>
    ELSE LET mt == JavaImportMatchAt(c, i)
         IN IF mt.ok THEN <<mt.group>> \o FindJavaImports(c, mt.end)
            ELSE FindJavaImports(c, i + 1)

Quotes == {"'", "\""}

\* one match of (?:require|from)\s*['"]([@\w./-]+)['"] at position i
RequireMatchAt(c, i) ==
    LET kw == IF Slice(c, i, i + 6) = "require" THEN 7
              ELSE IF Slice(c, i, i + 3) = "from" THEN 4 ELSE 0
        k == RunEnd(c, i + kw, Whitespace \cup {"\f"})
        e == RunEnd(c, k + 1, WordChars \cup {"@", ".", "/", "-"})
    IN  [ok |-> kw > 0 /\ Slice(c, k, k) \in Quotes /\ e > k + 1 /\ Slice(c, e, e) \in Quotes,
         group |-> Slice(c, k + 1, e - 1),
         end |-> e + 1]

\* re.findall of the require pattern from position i on
RECURSIVE FindRequires(_, _)
FindRequires(c, i) ==
    IF i > Len(c) THEN <<>>
    ELSE LET mt == RequireMatchAt(c, i)
         IN IF mt.ok THEN <<mt.group>> \o FindRequires(c, mt.end)
            ELSE FindRequires(c, i + 1)

\* what the patterns of _analyze_code find in each source text of the universe
SourceTexts == {PyMain.v, PyRelative.v, PySetup.v, JavaApp.v, JavaTool.v, JsMain.v}

Matches ==
    [c \in SourceTexts |->
        [imports |-> FindImports(c, 1), classes |-> FindClasses(c, 1),
         requires |-> FindRequires(c, 1), javaImports |-> FindJavaImports(c, 1),
         pyEntry |-> Contains(c, "if __name__ == \"__main__\":") \/ Contains(c, "app.run("),
         jsEntry |-> Contains(c, "app.listen") \/ Contains(c, "server.listen"),
         javaMain |-> Contains(c, "public static void main")]]

\* _analyze_code, the '.py', the '.js'/'.ts' and the '.java' branch.  No source text of the
\* universe reads an environment variable or declares a route, so _detect_env_vars and
\* _detect_api_endpoints add nothing.
_analyze_code(m, fname, ext, content) ==
    IF ext = ".py" THEN
        LET c == content.v
            isEntry == Matches[c].pyEntry
            m1 == [m EXCEPT !.languages = @ \cup {"Python"}]
            m2 == IF isEntry
                  THEN [m1 EXCEPT !.entry_points["Python"] = IF Truthy(@) THEN @ ELSE Str(fname),
                                  !.entry_point = IF Truthy(@) THEN @ ELSE Str(fname)]
                  ELSE m1
            imports == Matches[c].imports
            roots == {SplitFirst(imports[i], ".") : i \in 1..Len(imports)}
        IN  [m2 EXCEPT !.modules = @ \o Matches[c].classes,
                       !.dependencies["Python"] = @ \cup (roots \ STD_LIBS_python)]
    ELSE IF ext \in {".js", ".ts"} THEN
        LET c == content.v
            isEntry == Matches[c].jsEntry
            m1 == [m EXCEPT !.languages = @ \cup {"Node.js"}]
            m2 == IF isEntry
                  THEN [m1 EXCEPT !.entry_points["Node.js"] = IF Truthy(@) THEN @ ELSE Str(fname),
                                  !.entry_point = IF Truthy(@) THEN @ ELSE Str(fname)]
                  ELSE m1
            imports == Matches[c].requires
            roots == {SplitFirst(imports[i], "/") :
                         i \in {i \in 1..Len(imports) : ~StartsWith(imports[i], ".")}}
        IN  [m2 EXCEPT !.dependencies["Node.js"] = @ \cup (roots \ STD_LIBS_node)]
    ELSE IF ext = ".java" THEN
        LET c == content.v
            classes == Matches[c].classes
            m1 == [m EXCEPT !.languages = @ \cup {"Java"},
                            !.modules = IF classes # <<>> THEN Append(@, classes[1]) ELSE @]
            m2 == IF Matches[c].javaMain
                  THEN [m1 EXCEPT !.entry_points["Java"] = IF Truthy(@) THEN @ ELSE Str(fname),
                                  !.entry_point = IF Truthy(@) THEN @ ELSE Str(fname),
                                  !.entry_point_cmd =
                                      IF classes # <<>> THEN Str(classes[1]) ELSE @]
                  ELSE m1
            imports == Matches[c].javaImports
        IN  [m2 EXCEPT !.dependencies["Java"] = @ \cup
                {imports[i] : i \in {i \in 1..Len(imports) :
                    \A std \in {"java.lang", "java.util", "java.io"} :
                        ~StartsWith(imports[i], std)}}]
    ELSE m


(***************************************************************************)
(* Paths.  A directory below the scan root is the sequence of its          *)
(* components (<<>> is the root, '.'); os.sep is "/".                      *)
(***************************************************************************)
JoinPath(q) == Join("/", q)

\* os.path.splitext(f)[1]
SplitExt(f) ==
    LET lead == RunEnd(f, 1, {"."})
        dots == {i \in lead..Len(f) : Ch(f, i) = "."}
    IN  IF dots = {} THEN ""
        ELSE SubSeq(f, CHOOSE i \in dots : \A j \in dots : i >= j, Len(f))

\* os.path.basename(os.path.normpath(p)) for a path without '.' and '..' components
BaseName(p) ==
    LET parts == SelectSeq(Split(p, "/"), LAMBDA c : c # "")
    IN IF Len(parts) = 0 THEN "" ELSE Last(parts)

TreeExts == {".java", ".py", ".js", ".ts", ".go", ".json", ".xml", ".md", ".yml", ".yaml"}

\* the permutations of a finite set, as sequences: the orders a directory listing can have
Perms(S) ==
    {q \in [1..Cardinality(S) -> S] : \A i, j \in 1..Cardinality(S) : q[i] = q[j] => i = j}

(***************************************************************************)
(* Bounds and the universe of inputs                                       *)
(***************************************************************************)
MaxDirs == 3
MaxDepth == 2
MaxFiles == 2

DirNames == {"svc", "node_modules"}

PkgFull ==
    Dict(<< <<"name", Str("web-api")>>,
            <<"main", Str("server.js")>>,
            <<"description", Str("demo")>>,
            <<"dependencies", Dict(<< <<"express", Str("^4.18.0")>> >>)>>,
            <<"devDependencies", Dict(<< <<"jest", Str("^29.0.0")>> >>)>>,
            <<"scripts", Dict(<< <<"start", Str("node index.js")>> >>)>> >>)
PkgTopList == List(<<Str("x")>>)
PkgScriptsNull == Dict(<< <<"scripts", None>> >>)
PkgScriptsList == Dict(<< <<"description", Str("demo")>>, <<"scripts", List(<<Str("build")>>)>> >>)
PkgNameNum == Dict(<< <<"name", Num(7)>> >>)
PkgDepsNull == Dict(<< <<"name", Str("lib")>>, <<"main", Str("i.js")>>, <<"dependencies", None>> >>)

PkgDocs == {Malformed, PkgFull, PkgTopList, PkgScriptsNull, PkgScriptsList, PkgNameNum, PkgDepsNull}

ReqFiles ==
    {Malformed,
     Lines(<<"flask==2.0.0", "requests">>),
     Lines(<<"# pinned", "", "django>=4.0", "pytest">>),
     Lines(<<"==1.0">>)}


FileKinds ==
    {[name |-> "package.json", content |-> c] : c \in PkgDocs}
    \cup {[name |-> "requirements.txt", content |-> c] : c \in ReqFiles}
    \cup {[name |-> "app.py", content |-> PyMain],
          [name |-> "util.py", content |-> PyRelative],
          [name |-> "setup.py", content |-> PySetup],
          [name |-> "index.js", content |-> JsMain],
          [name |-> "App.java", content |-> JavaApp],
          [name |-> "Tool.java", content |-> JavaTool],
          [name |-> "pyproject.toml", content |-> Text("")],
          [name |-> "Pipfile", content |-> Text("")],
          [name |-> "pom.xml", content |-> Text("")]}

\* every set of at most k elements of S
RECURSIVE SubsetsUpTo(_, _)
SubsetsUpTo(S, k) ==
    IF k = 0 THEN {{}}
    ELSE LET P == SubsetsUpTo(S, k - 1) IN P \cup {p \cup {e} : p \in P, e \in S}

RECURSIVE SeqsUpTo(_, _)
SeqsUpTo(S, n) ==
    IF n = 0 THEN {<<>>}
    ELSE LET P == SeqsUpTo(S, n - 1) IN P \cup {Append(q, e) : q \in P, e \in S}

DirPaths == SeqsUpTo(DirNames, MaxDepth) \ {<<>>}

PrefixClosed(D) == \A d \in D : Len(d) > 1 => SubSeq(d, 1, Len(d) - 1) \in D

\* a tree: its directories below the root and its files, at most one file per (dir, name)
WellFormedTree(tr) ==
    /\ PrefixClosed(tr.dirs)
    /\ \A f \in tr.files : f.dir \in tr.dirs \cup {<<>>}
    /\ \A f, g \in tr.files : f.dir = g.dir /\ f.name = g.name => f = g

\* the files a tree can hold in the directories dirs, drawn from kinds
FileSets(dirs, kinds) ==
    SubsetsUpTo({[dir |-> d, name |-> k.name, content |-> k.content] : d \in dirs, k \in kinds},
                MaxFiles)

\* the well-formed manifests and sources that mark a directory of a deep tree
ShapeKinds ==
    {[name |-> "package.json", content |-> PkgFull],
     [name |-> "requirements.txt", content |-> Lines(<<"flask==2.0.0", "requests">>)],
     [name |-> "util.py", content |-> PyRelative]}

\* trees of every shape within the bounds, holding the files of ShapeKinds
ShapeTrees ==
    UNION {{[dirs |-> D, files |-> F] : F \in FileSets(D \cup {<<>>}, ShapeKinds)} :
              D \in {D \in SubsetsUpTo(DirPaths, MaxDirs - 1) : PrefixClosed(D)}}

\* the kinds of file a scanned directory below the root can hold
NestedKinds ==
    {k \in FileKinds : k.name \in {"package.json", "requirements.txt", "app.py", "util.py",
                                    "pom.xml"}}

\* trees holding files of every kind in the root, and trees of one scanned directory
\* holding manifests and Python sources
ContentTrees ==
    {[dirs |-> {}, files |-> F] : F \in FileSets({<<>>}, FileKinds)}
    \cup UNION {{[dirs |-> {<<d>>}, files |-> F] : F \in FileSets({<<d>>}, NestedKinds)} :
                  d \in DirNames \ IGNORE_DIRS}

\* the longest chain of nested directories; the rendered tree stops below level 3
MaxChain == 4

Chain(k) == [i \in 1..k |-> "svc"]

\* a chain of nested directories with manifests and sources in the innermost one
DeepTrees ==
    UNION {{[dirs |-> {Chain(j) : j \in 1..k}, files |-> F] : F \in FileSets({Chain(k)}, ShapeKinds)} :
              k \in 3..MaxChain}

\* trees with a package.json in the root and another one in a scanned directory
TwoManifestTrees ==
    {[dirs |-> {<<"svc">>},
      files |-> {[dir |-> <<>>, name |-> "package.json", content |-> c1],
                 [dir |-> <<"svc">>, name |-> "package.json", content |-> c2]}] :
         c1 \in PkgDocs, c2 \in PkgDocs}

Trees ==
    {tr \in ShapeTrees \cup ContentTrees \cup DeepTrees \cup TwoManifestTrees :
         WellFormedTree(tr)}

EmptyTree == [dirs |-> {}, files |-> {}]

SubDirs(tr, root) == {Last(d) : d \in {d \in tr.dirs : Len(d) = Len(root) + 1 /\ SubSeq(d, 1, Len(root)) = root}}

FilesIn(tr, root) == {[name |-> f.name, content |-> f.content] : f \in {f \in tr.files : f.dir = root}}


\* what a clone of the remote repository can contain
CloneTrees ==
    {EmptyTree,
     [dirs |-> {}, files |-> {[dir |-> <<>>, name |-> "package.json", content |-> PkgFull]}]}

LocalInputs == {"", "/p"}

RemoteInputs ==
    {"https://github.com/o/r",
     "https://github.com/o/r.git",
     "https://github.com/o/r/",
     "git@github.com:o/r.git",
     "git@github.com:o/r",
     "https://gitlab.com/o/r",
     "https://github.com/o",
     "https://github.com/o/r/x",
     "https://github.com/o/my repo"}

Inputs == LocalInputs \cup RemoteInputs

\* the origin remote a local checkout can have ("" when git.Repo(path) fails)
Origins == {"", "git@github.com:o/r.git"}

\* the directory tempfile.mkdtemp() returns
TempDir == "/tmp/tmpq1w2e3"

\* shutil.rmtree(onerror=on_rm_error): every entry is removed at once ("removed"), an
\* entry fails and the handler's chmod and retry removes it ("retried"), or the retry
\* raises out of rmtree and the directory stays ("raised")
RmtreeOutcomes == {"removed", "retried", "raised"}

(***************************************************************************)
(* State                                                                   *)
(***************************************************************************)
VARIABLES
    original_path,  \* DeepScanner.original_path
    path,           \* DeepScanner.path
    is_remote,      \* DeepScanner.is_remote
    temp_dir,       \* DeepScanner.temp_dir (None or Str)
    metadata,       \* DeepScanner.metadata
    service_info,   \* DeepScanner._service_info, in insertion order
    localKind,      \* filesystem: what original_path names ("missing", "file", "dir")
    tree,           \* filesystem: the content of the directory (local) or repository (remote)
    tmpDir,         \* filesystem: "present" while the mkdtemp directory exists
    cloned,         \* the URLs git.Repo.clone_from was called with
    pc,             \* position in generate_readme
    pending,        \* os.walk: directories still to be yielded
    walked,         \* os.walk: directories yielded so far
    tree_lines,     \* _scan_tree.tree_lines
    opened,         \* the files opened by the scan, with the reader
    template,       \* generate_readme's template argument, "" until build_markdown reads it
    result,         \* what generate_readme returned or raised
    active,         \* which generate_readme invocation is running (1 or 2)
    other           \* the invocation that is not running: its objects, frame and repository

vars == <<original_path, path, is_remote, temp_dir, metadata, service_info, localKind,
          tree, tmpDir, cloned, pc, pending, walked, tree_lines, opened, template, result,
          active, other>>

NoResult == [kind |-> "none"]
\* generate_readme was called once: there is no second invocation
NoInvocation == [pc |-> "none"]
Raised(stage, msg) == [kind |-> "raised", stage |-> stage, msg |-> msg]
Returned(doc) == [kind |-> "doc", doc |-> doc]

\* generate_readme has constructed the scanner: DeepScanner.__init__
Init ==
    \E inp \in Inputs :
        /\ original_path = inp
        /\ path = inp
        /\ is_remote = (StartsWith(inp, "http") \/ EndsWith(inp, ".git"))
        /\ temp_dir = None
        /\ metadata = InitialMetadata
        /\ service_info = <<>>
        /\ localKind \in (IF inp = "/p" THEN {"missing", "file", "dir"} ELSE {"missing"})
        /\ tree \in (IF inp \in RemoteInputs THEN CloneTrees
                     ELSE IF localKind = "dir" THEN Trees ELSE {EmptyTree})
        /\ tmpDir = "absent"
        /\ cloned = {}
        /\ pc = "setup_path"
        /\ pending = <<>>
        /\ walked = <<>>
        /\ tree_lines = <<>>
        /\ opened = {}
        /\ template = ""
        /\ result = NoResult
        /\ active = 1
        /\ other = NoInvocation

(***************************************************************************)
(* cleanup                                                                 *)
(***************************************************************************)
\* the filesystem: the path the user named, what it holds, and the mkdtemp directory
Disk(lk, tr, td) == [localKind |-> lk, tree |-> tr, tmpDir |-> td]

\* os.path.exists(p)
Exists(disk, p) ==
    \/ p = TempDir /\ disk.tmpDir = "present"
    \/ p = "/p" /\ disk.localKind # "missing"

\* shutil.rmtree(p, onerror=on_rm_error) that returns: the directory p is gone; on a path
\* that is no directory os.scandir raises again from the handler and nothing is removed
Rmtree(disk, p) ==
    IF p = TempDir THEN [disk EXCEPT !.tmpDir = "absent"]
    ELSE IF p = "/p" /\ disk.localKind = "dir"
         THEN [disk EXCEPT !.localKind = "missing", !.tree = EmptyTree]
    ELSE disk

\* the filesystem after cleanup(); an exception of rmtree is swallowed
cleanup(tdir, disk, outcome) ==
    IF Truthy(tdir) /\ Exists(disk, tdir.v) /\ outcome \in {"removed", "retried"}
    THEN Rmtree(disk, tdir.v)
    ELSE disk

(***************************************************************************)
(* setup_path                                                              *)
(***************************************************************************)
\* lines 126-130: repo_name, username and project_name from the URL
RemoteNames(m, url) ==
    LET parts == Split(RStrip(url, "/"), "/")
    IN  IF Len(parts) >= 2
        THEN [m EXCEPT !.repo_url = url,
                       !.repo_name = Replace(Last(parts), ".git", ""),
                       !.username = parts[Len(parts) - 1],
                       !.project_name = Str(Replace(Last(parts), ".git", ""))]
        ELSE [m EXCEPT !.repo_url = url]

\* lines 139-146: names from the origin remote of a local checkout
LocalNames(m, url) ==
    IF url = "" THEN m
    ELSE LET parts == Split(Replace(RStrip(url, "/"), ".git", ""), "/")
             m1 == [m EXCEPT !.repo_url = url, !.repo_name = Last(parts)]
         IN IF Len(parts) >= 2
            THEN [m1 EXCEPT !.username = Last(Split(parts[Len(parts) - 1], ":"))]
            ELSE m1

\* setup_path whose handler of a failed clone cleans up but does not re-raise
SetupPathRemote_noRaise ==
    /\ pc = "setup_path"
    /\ is_remote
    /\ temp_dir' = Str(TempDir)
    /\ cloned' = cloned \cup {original_path}
    /\ \E cloneOk \in BOOLEAN, outcome \in RmtreeOutcomes :
        IF cloneOk
        THEN /\ tmpDir' = "present"
             /\ path' = TempDir
             /\ metadata' = RemoteNames(metadata, original_path)
        ELSE /\ tmpDir' = cleanup(temp_dir', Disk(localKind, tree, "present"), outcome).tmpDir
             /\ path' = path
             /\ metadata' = metadata
    /\ pc' = "scan"
    /\ result' = result
    /\ UNCHANGED <<original_path, is_remote, service_info, localKind, tree,
                   pending, walked, tree_lines, opened, template,
                   active, other>>

SetupPathRemote ==
    /\ pc = "setup_path"
    /\ is_remote
    /\ temp_dir' = Str(TempDir)
    /\ cloned' = cloned \cup {original_path}
    /\ \E cloneOk \in BOOLEAN, outcome \in RmtreeOutcomes :
        IF cloneOk
        THEN /\ tmpDir' = "present"
             /\ path' = TempDir
             /\ metadata' = RemoteNames(metadata, original_path)
             /\ pc' = "scan"
             /\ result' = result
        ELSE /\ tmpDir' = cleanup(temp_dir', Disk(localKind, tree, "present"), outcome).tmpDir
             /\ path' = path
             /\ metadata' = metadata
             /\ pc' = "cleanup"
             /\ result' = Raised("setup_path", "Clone failed")
    /\ UNCHANGED <<original_path, is_remote, service_info, localKind, tree,
                   pending, walked, tree_lines, opened, template,
                   active, other>>

SetupPathLocal ==
    /\ pc = "setup_path"
    /\ ~is_remote
    /\ IF localKind = "missing"
       THEN /\ result' = Raised("setup_path", "Local path does not exist.")
            /\ pc' = "cleanup"
            /\ metadata' = metadata
       ELSE /\ \E origin \in (IF localKind = "dir" THEN Origins ELSE {""}) :
                  metadata' = LocalNames([metadata EXCEPT !.project_name = Str(BaseName(path))],
                                         origin)
            /\ pc' = "scan"
            /\ result' = result
    /\ UNCHANGED <<original_path, path, is_remote, temp_dir, service_info, localKind, tree,
                   tmpDir, cloned, pending, walked, tree_lines, opened, template,
                   active, other>>


(***************************************************************************)
(* scan: _scan_license, _scan_tree, _finalize_services, _infer_tech_stack  *)
(***************************************************************************)
\* the walk descends into every listed directory
FilterDirs_keepAll(dirs) == dirs

\* dirs[:] = [d for d in dirs if d not in IGNORE_DIRS]
FilterDirs(dirs) == SelectSeq(dirs, LAMBDA d : d \notin IGNORE_DIRS)

\* the grave accent (U+0060), which a TLA+ string cannot hold, is written "$";
\* no text of the program or of the inputs contains a dollar sign
Tick == "$"
Fence == Tick \o Tick \o Tick

\* the box-drawing prefixes of the tree lines
TreeIndent == "|   "
TreeBranch == "+-- "

RECURSIVE Repeat(_, _)
Repeat(s, n) == IF n = 0 THEN "" ELSE s \o Repeat(s, n - 1)

\* lines 250-257: the lines one directory adds to the rendered tree
TreeLinesOf(root, files) ==
    LET level == Len(root)
        indent == Repeat(TreeIndent, level)
        shown == SelectSeq(files, LAMBDA f : \E e \in TreeExts : EndsWith(f.name, e))
    IN  IF level < 4
        THEN (IF level > 0 THEN <<indent \o TreeBranch \o Last(root) \o "/">> ELSE <<>>)
             \o [i \in 1..Len(shown) |-> indent \o TreeIndent \o shown[i].name]
        ELSE <<>>

HasService(si, name) == \E i \in 1..Len(si) : si[i].name = name

\* lines 260-271: register the top-level folder of root
RegisterService(si, root) ==
    IF root # <<>> /\ ~HasService(si, root[1])
    THEN Append(si, [name |-> root[1], path |-> root[1], has_package_json |-> FALSE,
                     has_requirements |-> FALSE, has_pom |-> FALSE, has_go_mod |-> FALSE])
    ELSE si

\* self._service_info[top_service][flag] = True, when top_service is set
FlagService(si, root, flag) ==
    IF root = <<>> THEN si
    ELSE [i \in 1..Len(si) |-> IF si[i].name = root[1] THEN [si[i] EXCEPT ![flag] = TRUE] ELSE si[i]]

ExtLang(ext) ==
    CASE ext = ".py" -> "Python"
      [] ext \in {".js", ".ts"} -> "Node.js"
      [] ext = ".java" -> "Java"
      [] ext = ".go" -> "Go"

\* lines 344-351: the test file heuristics; absRoot is root.split(os.sep)
IsTestFile(absRoot, f, ext) ==
    \/ ext = ".py" /\ (StartsWith(f, "test_") \/ EndsWith(f, "_test.py") \/ "tests" \in Range(absRoot))
    \/ ext \in {".js", ".ts"}
         /\ ((\E e \in {".test.js", ".spec.js", ".test.ts", ".spec.ts"} : EndsWith(f, e))
             \/ "__tests__" \in Range(absRoot))

\* a walk that parses requirements.txt without recording Python as a language
ScanManifest_depsOnly(st, root, f) ==
    LET m == st.m
        rel == Str(JoinPath(Append(root, f.name)))
        here == Append(root, f.name)
    IN  CASE f.name = "package.json" ->
               [m |-> _parse_package_json(
                        [m EXCEPT !.node_package_json_path = IF @ = None THEN rel ELSE @,
                                  !.languages = @ \cup {"Node.js"}], f.content),
                si |-> FlagService(st.si, root, "has_package_json"),
                opened |-> st.opened \cup {[file |-> here, by |-> "_parse_package_json"]}]
          [] f.name = "requirements.txt" ->
               [m |-> _parse_requirements(
                        [m EXCEPT !.python_requirements_path = IF @ = None THEN rel ELSE @],
                        f.content),
                si |-> FlagService(st.si, root, "has_requirements"),
                opened |-> st.opened \cup {[file |-> here, by |-> "_parse_requirements"]}]
          [] f.name = "pom.xml" ->
               [st EXCEPT !.m = [m EXCEPT !.languages = @ \cup {"Java"},
                                          !.build_tools = @ \cup {"Maven"}],
                          !.si = FlagService(st.si, root, "has_pom")]
          [] f.name = "build.gradle" ->
               [st EXCEPT !.m = [m EXCEPT !.languages = @ \cup {"Java"},
                                          !.build_tools = @ \cup {"Gradle"}]]
          [] f.name = "go.mod" ->
               [st EXCEPT !.m = [m EXCEPT !.languages = @ \cup {"Go"},
                                          !.go_mod_path = IF @ = None THEN rel ELSE @],
                          !.si = FlagService(st.si, root, "has_go_mod")]
          [] OTHER -> st

\* lines 298-329: manifests and build files
ScanManifest(st, root, f) ==
    LET m == st.m
        rel == Str(JoinPath(Append(root, f.name)))
        here == Append(root, f.name)
    IN  CASE f.name = "package.json" ->
               [m |-> _parse_package_json(
                        [m EXCEPT !.node_package_json_path = IF @ = None THEN rel ELSE @,
                                  !.languages = @ \cup {"Node.js"}], f.content),
                si |-> FlagService(st.si, root, "has_package_json"),
                opened |-> st.opened \cup {[file |-> here, by |-> "_parse_package_json"]}]
          [] f.name = "requirements.txt" ->
               [m |-> _parse_requirements(
                        [m EXCEPT !.python_requirements_path = IF @ = None THEN rel ELSE @,
                                  !.languages = @ \cup {"Python"}], f.content),
                si |-> FlagService(st.si, root, "has_requirements"),
                opened |-> st.opened \cup {[file |-> here, by |-> "_parse_requirements"]}]
          [] f.name = "pom.xml" ->
               [st EXCEPT !.m = [m EXCEPT !.languages = @ \cup {"Java"},
                                          !.build_tools = @ \cup {"Maven"}],
                          !.si = FlagService(st.si, root, "has_pom")]
          [] f.name = "build.gradle" ->
               [st EXCEPT !.m = [m EXCEPT !.languages = @ \cup {"Java"},
                                          !.build_tools = @ \cup {"Gradle"}]]
          [] f.name = "go.mod" ->
               [st EXCEPT !.m = [m EXCEPT !.languages = @ \cup {"Go"},
                                          !.go_mod_path = IF @ = None THEN rel ELSE @],
                          !.si = FlagService(st.si, root, "has_go_mod")]
          [] OTHER -> st

\* lines 331-353: counting and analysis of a source file
ScanSource(st, absRoot, root, f) ==
    LET ext == Lower(SplitExt(f.name))
    IN  IF ext \in {".py", ".js", ".ts", ".java", ".go"}
        THEN LET m1 == [st.m EXCEPT !.stats.files[ExtLang(ext)] = @ + 1,
                                    !.stats.test_files =
                                        IF IsTestFile(absRoot, f.name, ext) THEN @ + 1 ELSE @]
             IN [st EXCEPT !.m = _analyze_code(m1, f.name, ext, f.content),
                           !.opened = @ \cup {[file |-> Append(root, f.name), by |-> "_analyze_code"]}]
        ELSE st

\* lines 277-296: CI, linting and Docker files, by name
ScanConfig(st, f) ==
    LET n == f.name
        ci == n \in {"circle.yml", ".gitlab-ci.yml", "azure-pipelines.yml",
                     "bitbucket-pipelines.yml", ".travis.yml"}
        lint == (IF StartsWith(n, ".eslintrc")
                    \/ n \in {".prettierrc", ".prettierrc.js", ".prettierrc.json"}
                 THEN {"JavaScript/TypeScript"} ELSE {})
                \cup (IF n \in {"pylintrc", ".flake8"} THEN {"Python"} ELSE {})
                \cup (IF n = "pyproject.toml" THEN {"Python (pyproject)"} ELSE {})
    IN  [st EXCEPT !.m = [st.m EXCEPT !.stats.has_ci = @ \/ ci,
                                      !.stats.linting = @ \cup lint,
                                      !.docker.dockerfile = @ \/ n = "Dockerfile",
                                      !.docker.compose =
                                          @ \/ n \in {"docker-compose.yml", "docker-compose.yaml"}]]

\* a walk whose file loop sits inside "if level < 4" with the tree lines
ScanFile_capped(st, absRoot, root, f) ==
    IF Len(root) < 4
    THEN ScanSource(ScanManifest(ScanConfig(st, f), root, f), absRoot, root, f)
    ELSE st

\* the body of "for f in files" (lines 273-353) for one file
ScanFile(st, absRoot, root, f) ==
    ScanSource(ScanManifest(ScanConfig(st, f), root, f), absRoot, root, f)

RECURSIVE ScanFiles(_, _, _, _)
ScanFiles(st, absRoot, root, files) ==
    IF Len(files) = 0 THEN st
    ELSE ScanFiles(ScanFile(st, absRoot, root, Head(files)), absRoot, root, Tail(files))

\* _scan_license: os.listdir(self.path) raises when path is not a directory
ScanLicense ==
    /\ pc = "scan"
    /\ IF ~is_remote /\ localKind = "file"
       THEN /\ result' = Raised("scan", "NotADirectoryError")
            /\ pc' = "cleanup"
            /\ pending' = pending
       ELSE /\ result' = result
            /\ pc' = "scan_tree"
            /\ pending' = <<<<>>>>
    /\ UNCHANGED <<original_path, path, is_remote, temp_dir, metadata, service_info, localKind,
                   tree, tmpDir, cloned, walked, tree_lines, opened, template,
                   active, other>>

\* one iteration of "for root, dirs, files in os.walk(root_path)"
ScanTreeDir ==
    /\ pc = "scan_tree"
    /\ pending # <<>>
    /\ LET root == Head(pending)
           absRoot == Split(path, "/") \o root
       IN \E listedDirs \in Perms(SubDirs(tree, root)), files \in Perms(FilesIn(tree, root)) :
            LET dirs == FilterDirs(listedDirs)
                ci == EndsWith(JoinPath(absRoot), ".github") /\ "workflows" \in Range(dirs)
                st == ScanFiles([m |-> [metadata EXCEPT !.stats.has_ci = @ \/ ci],
                                 si |-> RegisterService(service_info, root),
                                 opened |-> opened], absRoot, root, files)
            IN /\ tree_lines' = tree_lines \o TreeLinesOf(root, files)
               /\ metadata' = st.m
               /\ service_info' = st.si
               /\ opened' = st.opened
               /\ pending' = [i \in 1..Len(dirs) |-> Append(root, dirs[i])] \o Tail(pending)
               /\ walked' = Append(walked, root)
    /\ UNCHANGED <<original_path, path, is_remote, temp_dir, localKind, tree, tmpDir, cloned,
                   pc, result, template,
                   active, other>>


\* _finalize_services
_finalize_services(m, si) ==
    [m EXCEPT !.services = @ \o
        [i \in 1..Len(si) |->
            [name |-> si[i].name, path |-> si[i].path,
             languages |-> (IF si[i].has_package_json THEN <<"Node.js">> ELSE <<>>)
                           \o (IF si[i].has_requirements THEN <<"Python">> ELSE <<>>)
                           \o (IF si[i].has_pom THEN <<"Java">> ELSE <<>>)
                           \o (IF si[i].has_go_mod THEN <<"Go">> ELSE <<>>)]]]

\* the labels of cond-selected entries of a table of <<condition, label>> pairs
Labels(table) == {e[2] : e \in {e \in table : e[1]}}

\* _infer_tech_stack
_infer_tech_stack(m) ==
    LET py == {Lower(d) : d \in m.dependencies["Python"]}
        node == {Lower(d) : d \in m.dependencies["Node.js"]}
        java == {Lower(d) : d \in m.dependencies["Java"]}
        go == {Lower(d) : d \in m.dependencies["Go"]}
        frameworks == m.tech_stack_details.frameworks \cup Labels({
            <<"django" \in py, "Django">>,
            <<"flask" \in py, "Flask">>,
            <<"fastapi" \in py, "FastAPI">>,
            <<"express" \in node, "Express">>,
            <<"next" \in node \/ "next.js" \in node, "Next.js">>,
            <<"nuxt" \in node \/ "nuxt.js" \in node, "Nuxt.js">>,
            <<"nest" \in node \/ "nestjs" \in node, "NestJS">>,
            <<"koa" \in node, "Koa">>,
            <<\E d \in java : Contains(d, "spring"), "Spring/Spring Boot">>,
            <<"gin" \in go, "Gin">>,
            <<"echo" \in go, "Echo">>})
        databases == m.tech_stack_details.databases \cup Labels({
            <<{"psycopg2", "psycopg2-binary"} \cap py # {}, "PostgreSQL">>,
            <<"mysqlclient" \in py \/ "pymysql" \in py, "MySQL">>,
            <<"pymongo" \in py \/ "motor" \in py, "MongoDB">>,
            <<"sqlalchemy" \in py, "SQL (SQLAlchemy)">>,
            <<"mongoose" \in node, "MongoDB">>,
            <<"pg" \in node \/ "pg-promise" \in node, "PostgreSQL">>,
            <<"mysql2" \in node, "MySQL">>,
            <<"redis" \in node \/ "ioredis" \in node, "Redis">>})
        auth == m.tech_stack_details.auth \cup Labels({
            <<"jsonwebtoken" \in node \/ "jwt" \in py, "JWT">>,
            <<"passport" \in node, "Passport.js">>,
            <<"django-allauth" \in py, "Django Allauth">>,
            <<"djangorestframework-simplejwt" \in py, "DRF + JWT">>})
        cache == m.tech_stack_details.cache \cup Labels({
            <<"redis" \in node \/ "ioredis" \in node \/ "redis" \in py, "Redis">>})
    IN  [m EXCEPT !.tech_stack_details =
                      [frameworks |-> frameworks, databases |-> databases,
                       auth |-> auth, cache |-> cache],
                  !.tech_stack = @ \cup {"Framework: " \o x : x \in frameworks}
                                   \cup {"Database: " \o x : x \in databases}
                                   \cup {"Auth: " \o x : x \in auth}
                                   \cup {"Cache: " \o x : x \in cache}]

\* sorted(S)[0] for a non-empty set of the labels above: the least in code-point order
LabelOrder ==
    <<"Django", "Express", "FastAPI", "Flask", "Gin", "Echo", "Koa", "MongoDB", "MySQL",
      "NestJS", "Next.js", "Nuxt.js", "PostgreSQL", "Redis", "SQL (SQLAlchemy)",
      "Spring/Spring Boot">>

\* _generate_smart_description, for a str project_name
_generate_smart_description(m) ==
    LET name == Title(Replace(Replace(m.project_name.v, "-", " "), "_", " "))
        ptype == IF Contains(name, "Api") THEN "RESTful API"
                 ELSE IF Contains(name, "Web") \/ Contains(name, "Ui") THEN "Web Application"
                 ELSE IF Contains(name, "Lib") \/ Contains(name, "Sdk") THEN "Library"
                 ELSE IF Contains(name, "Management") \/ Contains(name, "System")
                      THEN "Management System"
                 ELSE "Software Solution"
        langs == SortedLangs(m.languages)
        frameworks == SelectSeq2(LabelOrder, m.tech_stack_details.frameworks)
        dbs == SelectSeq2(LabelOrder, m.tech_stack_details.databases)
    IN  "**" \o name \o "** is a " \o ptype
        \o (IF Len(langs) > 0 THEN " built with **" \o langs[1] \o "**" ELSE "")
        \o (IF Len(frameworks) > 0
            THEN ", leveraging **" \o frameworks[1] \o "** for the architecture" ELSE "")
        \o (IF Len(dbs) > 0 THEN " and **" \o dbs[1] \o "** for data storage" ELSE "")
        \o "."

\* the end of _scan_tree (line 355) and the rest of scan (lines 162-167)
ScanFinish ==
    /\ pc = "scan_tree"
    /\ pending = <<>>
    /\ LET m1 == [metadata EXCEPT !.structure =
                      Fence \o "text\n.\n" \o Join("\n", tree_lines) \o "\n" \o Fence]
           m2 == _infer_tech_stack(_finalize_services(m1, service_info))
       IN IF Truthy(m2.description)
          THEN /\ metadata' = m2
               /\ pc' = "build_markdown"
               /\ result' = result
          ELSE IF IsStr(m2.project_name)
          THEN /\ metadata' = [m2 EXCEPT !.description = Str(_generate_smart_description(m2))]
               /\ pc' = "build_markdown"
               /\ result' = result
          ELSE /\ metadata' = m2
               /\ pc' = "cleanup"
               /\ result' = Raised("scan", "AttributeError")
    /\ UNCHANGED <<original_path, path, is_remote, temp_dir, service_info, localKind, tree,
                   tmpDir, cloned, pending, walked, tree_lines, opened, template,
                   active, other>>


(***************************************************************************)
(* build_markdown and its section generators                               *)
(***************************************************************************)
\* generate_readme's context argument
custom_context == ""

\* an emoji of a header, written as its short code
Emoji(name) == ":" \o name \o ": "

\* code-point order of the characters a name can hold (without the grave accent)
Ascii ==
    " !\"#$%&'()*+,-./0123456789:;<=>?@ABCDEFGHIJKLMNOPQRSTUVWXYZ[\\]^_abcdefghijklmnopqrstuvwxyz{|}~"

\* a <= b for str
RECURSIVE StrLeq(_, _)
StrLeq(a, b) ==
    IF a = "" THEN TRUE
    ELSE IF b = "" THEN FALSE
    ELSE IF Ch(a, 1) = Ch(b, 1) THEN StrLeq(SubSeq(a, 2, Len(a)), SubSeq(b, 2, Len(b)))
    ELSE IndexIn(Ascii, Ch(a, 1)) < IndexIn(Ascii, Ch(b, 1))

\* sorted(S) for a set of str
RECURSIVE Sorted(_)
Sorted(S) ==
    IF S = {} THEN <<>>
    ELSE LET least == CHOOSE x \in S : \A y \in S : StrLeq(x, y)
         IN <<least>> \o Sorted(S \ {least})

\* q[:n]
Take(q, n) == SubSeq(q, 1, IF Len(q) < n THEN Len(q) ELSE n)

\* "".join(q)
Concat(q) == Join("", q)

_has_tech_stack_details(m) ==
    \E k \in {"frameworks", "databases", "auth", "cache"} : m.tech_stack_details[k] # {}

_generate_tech_stack_list(m) ==
    LET d == m.tech_stack_details
        lines ==
            (IF d.frameworks # {} THEN <<"- **Frameworks:** " \o Join(", ", Sorted(d.frameworks))>> ELSE <<>>)
            \o (IF d.databases # {} THEN <<"- **Databases:** " \o Join(", ", Sorted(d.databases))>> ELSE <<>>)
            \o (IF d.auth # {} THEN <<"- **Auth:** " \o Join(", ", Sorted(d.auth))>> ELSE <<>>)
            \o (IF d.cache # {} THEN <<"- **Cache:** " \o Join(", ", Sorted(d.cache))>> ELSE <<>>)
    IN  IF Len(lines) = 0
        THEN "Languages: " \o Join(", ", SortedLangs(m.languages)) \o "\n"
        ELSE Join("\n", lines) \o "\n"

_generate_env_section(m) ==
    LET envs == Sorted(m.env_vars)
    IN  IF Len(envs) = 0 THEN ""
        ELSE "## " \o Emoji("lock") \o "Environment Variables\n\n"
             \o "Configure the following environment variables (e.g. in a " \o Tick \o ".env"
             \o Tick \o " file):\n\n"
             \o Fence \o "bash\n" \o Concat([i \in 1..Len(envs) |-> envs[i] \o "=\n"])
             \o Fence \o "\n\n"

_generate_api_section(m) ==
    LET eps == m.api_endpoints
    IN  IF Len(eps) = 0 THEN ""
        ELSE "## " \o Emoji("satellite") \o "API Endpoints (Auto-detected)\n\n"
             \o Concat([i \in 1..Len(eps) |-> "- " \o Tick \o eps[i] \o Tick \o "\n"])
             \o "\n> Note: This list is auto-generated and may be incomplete. Please review and update.\n\n"

_generate_docker_section(m) ==
    IF ~(m.docker.dockerfile \/ m.docker.compose) THEN ""
    ELSE "## " \o Emoji("whale") \o "Docker\n\n"
         \o (IF m.docker.dockerfile
             THEN "Build and run using Docker:\n\n" \o Fence
                  \o "bash\ndocker build -t my-app .\ndocker run -p 8000:8000 my-app\n"
                  \o Fence \o "\n\n"
             ELSE "")
         \o (IF m.docker.compose
             THEN "Or using Docker Compose:\n\n" \o Fence \o "bash\ndocker-compose up --build\n"
                  \o Fence \o "\n\n"
             ELSE "")

\* sorted(services, key=name): a stable sort, the names of services being distinct
_generate_services_section(m) ==
    LET names == Sorted({m.services[i].name : i \in 1..Len(m.services)})
        svc(n) == m.services[CHOOSE i \in 1..Len(m.services) : m.services[i].name = n]
    IN  IF Len(m.services) = 0 THEN ""
        ELSE "## " \o Emoji("jigsaw") \o "Services / Packages (Detected)\n\n"
             \o Concat([i \in 1..Len(names) |->
                   "### " \o Tick \o names[i] \o "/" \o Tick \o "\n"
                   \o "- Path: " \o Tick \o svc(names[i]).path \o Tick \o "\n"
                   \o "- Languages: "
                   \o (IF Len(svc(names[i]).languages) > 0
                       THEN Join(", ", svc(names[i]).languages) ELSE "Unknown")
                   \o "\n\n"])

\* the languages in the insertion order of stats["files"]
StatsOrder == <<"Python", "Node.js", "Java", "Go">>

_generate_health_section(m) ==
    LET files == m.stats.files
        total == files["Python"] + files["Node.js"] + files["Java"] + files["Go"]
    IN  "## " \o Emoji("bar_chart") \o "Project Health Snapshot\n\n"
        \o "- **Code Files (approx):** " \o ToString(total) \o "\n"
        \o Concat([i \in 1..4 |->
              IF files[StatsOrder[i]] # 0
              THEN "  - " \o StatsOrder[i] \o ": " \o ToString(files[StatsOrder[i]]) \o "\n"
              ELSE ""])
        \o "- **Test Files (approx):** " \o ToString(m.stats.test_files) \o "\n"
        \o "- **CI/CD Config:** " \o (IF m.stats.has_ci THEN "Yes" ELSE "Not detected") \o "\n"
        \o (IF m.stats.linting # {}
            THEN "- **Linting/Formatting:** " \o Join(", ", Sorted(m.stats.linting)) \o "\n"
            ELSE "- **Linting/Formatting:** Not detected\n")
        \o "\n"

AnyDependencies(m) == \E l \in Langs : m.dependencies[l] # {}

_generate_next_steps_section(m) ==
    LET found ==
            (IF m.license \in {"Unlicensed", "See LICENSE file"}
             THEN <<"Add a proper LICENSE file (e.g., MIT, Apache 2.0).">> ELSE <<>>)
            \o (IF m.stats.test_files = 0
                THEN <<"Add automated tests (unit/integration) for critical parts.">> ELSE <<>>)
            \o (IF ~m.stats.has_ci
                THEN <<"Set up a CI pipeline (GitHub Actions, GitLab CI, etc.).">> ELSE <<>>)
            \o (IF m.env_vars = {}
                THEN <<"Document required environment variables in the README or "
                       \o Tick \o ".env.example" \o Tick \o ".">> ELSE <<>>)
            \o (IF ~AnyDependencies(m)
                THEN <<"Add or document dependency management files (" \o Tick
                       \o "requirements.txt" \o Tick \o ", " \o Tick \o "package.json" \o Tick
                       \o ", etc.).">> ELSE <<>>)
        suggestions ==
            IF Len(found) = 0
            THEN <<"Project looks good! Consider improving documentation and adding more examples.">>
            ELSE found
    IN  "## " \o Emoji("crystal_ball") \o "Suggested Next Steps (Auto-generated)\n\n"
        \o Concat([i \in 1..Len(suggestions) |-> "- [ ] " \o suggestions[i] \o "\n"])
        \o "\n"


\* _generate_strict_install; pyOrder is the iteration order of the Python dependency set
_generate_strict_install(m, langs, pyOrder) ==
    "1. **Clone the repository**\n   " \o Fence \o "bash\n"
    \o "   git clone " \o m.repo_url \o "\n"
    \o "   cd " \o Format(m.project_name) \o "\n   " \o Fence \o "\n"
    \o (IF "Node.js" \in Range(langs)
        THEN "2. **Node.js Setup**\n   " \o Fence \o "bash\n   npm install\n   " \o Fence \o "\n"
        ELSE "")
    \o (IF "Python" \in Range(langs)
        THEN "2. **Python Setup**\n   " \o Fence
             \o "bash\n   python -m venv venv\n   source venv/bin/activate\n"
             \o (IF Truthy(m.python_requirements_path)
                 THEN "   pip install -r " \o Format(m.python_requirements_path) \o "\n"
                 ELSE IF m.dependencies["Python"] # {}
                 THEN "   pip install " \o Join(" ", Take(pyOrder, 5)) \o "\n"
                 ELSE "")
             \o "   " \o Fence \o "\n"
        ELSE "")
    \o (IF "Java" \in Range(langs)
        THEN "2. **Java Setup**\n"
             \o (IF "Maven" \in m.build_tools
                 THEN "   " \o Fence \o "bash\n   mvn clean install\n   " \o Fence \o "\n"
                 ELSE IF "Gradle" \in m.build_tools
                 THEN "   " \o Fence \o "bash\n   ./gradlew build\n   " \o Fence \o "\n"
                 ELSE "   " \o Fence
                      \o "bash\n   # Raw Java Project: Compile manually\n   javac *.java\n   "
                      \o Fence \o "\n")
        ELSE "")
    \o (IF "Go" \in Range(langs)
        THEN "2. **Go Setup**\n   " \o Fence \o "bash\n   go mod tidy\n   " \o Fence \o "\n"
        ELSE "")

\* the entry file of a language: entry_points[l] or entry_point or the default
EntryOf(m, l, default) == Or(Or(m.entry_points[l], m.entry_point), Str(default))

\* _generate_strict_usage raises: "start" in scripts on a non-container (TypeError),
\* entry.replace on a non-str (AttributeError)
UsageRaises(m, langs) ==
    \/ "Node.js" \in Range(langs) /\ ~SupportsIn(m.scripts)
    \/ "Python" \in Range(langs) /\ "fastapi" \in m.dependencies["Python"]
         /\ ~IsStr(EntryOf(m, "Python", "main.py"))

\* _generate_strict_usage, when it does not raise
_generate_strict_usage(m, langs) ==
    (IF "Node.js" \in Range(langs)
     THEN "**Node.js:**\n"
          \o (IF In("start", m.scripts)
              THEN Fence \o "bash\nnpm start\n" \o Fence \o "\n"
              ELSE Fence \o "bash\nnode " \o Format(EntryOf(m, "Node.js", "index.js")) \o "\n"
                   \o Fence \o "\n")
     ELSE "")
    \o (IF "Python" \in Range(langs)
        THEN "**Python:**\n"
             \o (IF "fastapi" \in m.dependencies["Python"]
                 THEN Fence \o "bash\nuvicorn "
                      \o Replace(EntryOf(m, "Python", "main.py").v, ".py", "")
                      \o ":app --reload\n" \o Fence \o "\n"
                 ELSE Fence \o "bash\npython " \o Format(EntryOf(m, "Python", "main.py")) \o "\n"
                      \o Fence \o "\n")
        ELSE "")
    \o (IF "Java" \in Range(langs)
        THEN "**Java:**\n"
             \o (IF "Maven" \in m.build_tools
                 THEN Fence \o "bash\nmvn spring-boot:run\n" \o Fence \o "\n"
                 ELSE IF "Gradle" \in m.build_tools
                 THEN Fence \o "bash\n./gradlew bootRun\n" \o Fence \o "\n"
                 ELSE LET entry_cls == m.entry_point_cmd
                          entry_file == Or(m.entry_points["Java"], m.entry_point)
                      IN IF Truthy(entry_cls) /\ Truthy(entry_file)
                         THEN Fence \o "bash\njavac " \o Format(entry_file) \o "\njava "
                              \o Format(entry_cls) \o "\n" \o Fence \o "\n"
                         ELSE Fence \o "bash\njavac Main.java\njava Main\n" \o Fence \o "\n")
        ELSE "")
    \o (IF "Go" \in Range(langs)
        THEN "**Go:**\n" \o Fence \o "bash\ngo run " \o Format(EntryOf(m, "Go", "main.go"))
             \o "\n" \o Fence \o "\n"
        ELSE "")

DbDeps == {"mongoose", "mongodb", "pg", "mysql", "mysql2", "sequelize"}
CacheDeps == {"redis", "ioredis"}
FlowDbDeps == {"mongoose", "mongodb", "sqlalchemy", "pymongo", "mysql", "mysql2", "pg",
               "psycopg2", "psycopg2-binary"}

\* the dependencies the component diagram draws; their set iteration order is depOrder
DiagramDeps(m) ==
    (m.dependencies["Node.js"] \cup m.dependencies["Python"]) \cap (DbDeps \cup CacheDeps)

\* generate_diagrams
generate_diagrams(m, depOrder) ==
    LET first == Or(Or(m.entry_point_cmd, m.entry_point), Str("Main"))
        entry == IF IsStr(first) /\ (EndsWith(first.v, ".py") \/ EndsWith(first.v, ".java"))
                 THEN Str(SplitFirst(first.v, ".")) ELSE first
        mods == Take(m.modules, 6)
        backend == Format(Or(m.entry_point, Str("Server")))
        chart ==
            Fence \o "mermaid\ngraph TD\n"
            \o (IF ("Java" \in m.languages \/ "Python" \in m.languages) /\ Len(m.modules) > 0
                THEN "    " \o Format(entry) \o " --> Logic_Layer\n"
                     \o Concat([i \in 1..Len(mods) |->
                           IF Str(mods[i]) # entry
                           THEN "    Logic_Layer --> " \o mods[i] \o "\n" ELSE ""])
                ELSE "    User[User] --> UI[Client]\n"
                     \o "    UI --> " \o backend \o "\n"
                     \o Concat([i \in 1..Len(depOrder) |->
                           IF depOrder[i] \in DbDeps
                           THEN "    " \o backend \o " --> " \o depOrder[i] \o "[("
                                \o depOrder[i] \o " DB)]\n"
                           ELSE "    " \o backend \o " --> " \o depOrder[i] \o "(("
                                \o depOrder[i] \o " Cache))\n"]))
            \o Fence \o "\n\n"
        has_db == \/ \E t \in m.tech_stack : Contains(t, "Database")
                  \/ \E l \in Langs : m.dependencies[l] \cap FlowDbDeps # {}
        flow ==
            Fence \o "mermaid\nsequenceDiagram\n    participant User\n    participant System\n"
            \o (IF has_db THEN "    participant DB as Database\n" ELSE "")
            \o "    User->>System: Request\n"
            \o "    System->>System: Process Logic\n"
            \o (IF has_db THEN "    System->>DB: Query Data\n    DB-->>System: Return Data\n" ELSE "")
            \o "    System-->>User: Response\n" \o Fence
    IN  "### Component Architecture\n" \o chart \o "### Application Flow\n" \o flow


Badges(langs) ==
    Concat([i \in 1..Len(langs) |->
        "![" \o langs[i] \o "](https://img.shields.io/badge/Language-" \o langs[i] \o "-blue) "])

HasTests(m) == Len(m.tests) > 0 \/ m.stats.test_files > 0

\* build_markdown raises: _generate_strict_usage, or scripts.items() on a non-dict
BuildRaises(m, tpl) ==
    \/ UsageRaises(m, SortedLangs(m.languages))
    \/ tpl # "Minimal" /\ Truthy(m.scripts) /\ ~IsDict(m.scripts)

\* the minimal layout (lines 721-741)
MinimalMarkdown(m, pyOrder) ==
    LET langs == SortedLangs(m.languages)
    IN  "# " \o Format(m.project_name) \o "\n\n"
        \o Badges(langs) \o "\n\n"
        \o "## " \o Emoji("memo") \o "Description\n" \o Format(m.description) \o "\n\n"
        \o (IF custom_context # "" THEN "> **Context:** " \o custom_context \o "\n\n" ELSE "")
        \o "## " \o Emoji("tools") \o "Tech Stack\n"
        \o (IF _has_tech_stack_details(m) THEN _generate_tech_stack_list(m) \o "\n"
            ELSE Join(", ", langs) \o "\n\n")
        \o "## " \o Emoji("gear") \o "Installation\n" \o _generate_strict_install(m, langs, pyOrder)
        \o "## " \o Emoji("rocket") \o "Usage\n" \o _generate_strict_usage(m, langs)
        \o (IF m.env_vars # {} THEN _generate_env_section(m) ELSE "")
        \o (IF Len(m.api_endpoints) > 0 THEN _generate_api_section(m) ELSE "")
        \o "## " \o Emoji("page") \o "License\n" \o m.license

\* a table of contents that lists Testing for detected test tools only
TableOfContents_toolsOnly(m) ==
    "## " \o Emoji("bookmark_tabs") \o "Table of Contents\n"
    \o (IF _has_tech_stack_details(m) THEN "- [Tech Stack](#-tech-stack)\n" ELSE "")
    \o "- [Architecture](#-architecture)\n"
    \o "- [Project Structure](#-project-structure)\n"
    \o "- [Installation](#-installation)\n"
    \o "- [Usage](#-usage)\n"
    \o (IF Len(m.api_endpoints) > 0 THEN "- [API Endpoints](#-api-endpoints)\n" ELSE "")
    \o (IF m.env_vars # {} THEN "- [Environment Variables](#-environment-variables)\n" ELSE "")
    \o (IF m.docker.dockerfile \/ m.docker.compose THEN "- [Docker](#-docker)\n" ELSE "")
    \o (IF Len(m.services) > 0 THEN "- [Services](#-services)\n" ELSE "")
    \o (IF Truthy(m.scripts) THEN "- [Scripts](#-scripts)\n" ELSE "")
    \o (IF AnyDependencies(m) THEN "- [Dependencies](#-dependencies)\n" ELSE "")
    \o (IF Len(m.tests) > 0 THEN "- [Testing](#-testing)\n" ELSE "")
    \o "- [Project Health](#-project-health)\n"
    \o "- [Contributing](#-contributing)\n"
    \o "- [Next Steps](#-next-steps)\n"
    \o "- [License](#-license)\n\n"

\* the table of contents (lines 765-790)
TableOfContents(m) ==
    "## " \o Emoji("bookmark_tabs") \o "Table of Contents\n"
    \o (IF _has_tech_stack_details(m) THEN "- [Tech Stack](#-tech-stack)\n" ELSE "")
    \o "- [Architecture](#-architecture)\n"
    \o "- [Project Structure](#-project-structure)\n"
    \o "- [Installation](#-installation)\n"
    \o "- [Usage](#-usage)\n"
    \o (IF Len(m.api_endpoints) > 0 THEN "- [API Endpoints](#-api-endpoints)\n" ELSE "")
    \o (IF m.env_vars # {} THEN "- [Environment Variables](#-environment-variables)\n" ELSE "")
    \o (IF m.docker.dockerfile \/ m.docker.compose THEN "- [Docker](#-docker)\n" ELSE "")
    \o (IF Len(m.services) > 0 THEN "- [Services](#-services)\n" ELSE "")
    \o (IF Truthy(m.scripts) THEN "- [Scripts](#-scripts)\n" ELSE "")
    \o (IF AnyDependencies(m) THEN "- [Dependencies](#-dependencies)\n" ELSE "")
    \o (IF HasTests(m) THEN "- [Testing](#-testing)\n" ELSE "")
    \o "- [Project Health](#-project-health)\n"
    \o "- [Contributing](#-contributing)\n"
    \o "- [Next Steps](#-next-steps)\n"
    \o "- [License](#-license)\n\n"

\* the Scripts section (lines 811-815), for a dict
ScriptsSection(m) ==
    IF Truthy(m.scripts)
    THEN "## " \o Emoji("scroll") \o "Scripts\n| Command | Description |\n|---|---|\n"
         \o Concat([i \in 1..Len(m.scripts.v) |->
               "| " \o Tick \o "npm run " \o m.scripts.v[i][1] \o Tick \o " | "
               \o Format(m.scripts.v[i][2]) \o " |\n"])
         \o "\n"
    ELSE ""

\* the Dependencies section (lines 818-826)
DependenciesSection(m, langs) ==
    IF AnyDependencies(m)
    THEN "## " \o Emoji("package") \o "Dependencies\n"
         \o Concat([i \in 1..Len(langs) |->
               IF m.dependencies[langs[i]] # {}
               THEN "**" \o langs[i] \o "**\n"
                    \o Concat([j \in 1..Len(Take(Sorted(m.dependencies[langs[i]]), 12)) |->
                          "- " \o Tick \o Sorted(m.dependencies[langs[i]])[j] \o Tick \o "\n"])
                    \o "\n"
               ELSE ""])
    ELSE ""

\* the Testing section (lines 829-850)
TestingSection(m, langs) ==
    IF HasTests(m)
    THEN "## " \o Emoji("test_tube") \o "Testing\n"
         \o (IF Len(m.tests) > 0
             THEN "Detected testing tools/frameworks:\n\n" \o Join(", ", Sorted(Range(m.tests)))
                  \o "\n\n"
             ELSE "")
         \o (IF m.stats.test_files > 0
             THEN "- Approx. **" \o ToString(m.stats.test_files) \o "** test files detected\n\n"
             ELSE "")
         \o "To run the tests, execute (adjust as needed):\n" \o Fence \o "bash\n"
         \o (IF Range(m.tests) \cap {"jest", "mocha"} # {} THEN "npm test\n"
             ELSE IF "pytest" \in Range(m.tests) THEN "pytest\n"
             ELSE IF "Node.js" \in Range(langs) THEN "npm test\n"
             ELSE IF "Python" \in Range(langs) THEN "pytest\n"
             ELSE "# Run your test command here\n")
         \o Fence \o "\n\n"
    ELSE ""

\* the detailed layout (lines 743-861)
DetailedMarkdown(m, pyOrder, depOrder) ==
    LET langs == SortedLangs(m.languages)
    IN  "# " \o Format(m.project_name) \o "\n\n"
        \o (IF m.username # "username"
            THEN "[![Stars](https://img.shields.io/github/stars/" \o m.username \o "/"
                 \o m.repo_name \o "?style=social)](https://github.com/" \o m.username \o "/"
                 \o m.repo_name \o "/stargazers) "
                 \o "[![Forks](https://img.shields.io/github/forks/" \o m.username \o "/"
                 \o m.repo_name \o "?style=social)](https://github.com/" \o m.username \o "/"
                 \o m.repo_name \o "/network/members)\n"
            ELSE Badges(langs))
        \o "![License](https://img.shields.io/badge/License-" \o Replace(m.license, " ", "_")
        \o "-green)\n\n"
        \o "## " \o Emoji("memo") \o "Description\n" \o Format(m.description) \o "\n\n"
        \o (IF custom_context # "" THEN "> **Developer Note:** " \o custom_context \o "\n\n"
            ELSE "")
        \o "## " \o Emoji("camera") \o "Screenshot\n"
        \o "![App Screenshot](https://via.placeholder.com/800x400?text=Application+Screenshot)\n\n"
        \o TableOfContents(m)
        \o (IF _has_tech_stack_details(m)
            THEN "## " \o Emoji("tools") \o "Tech Stack\n" \o _generate_tech_stack_list(m) \o "\n"
            ELSE "")
        \o "## " \o Emoji("building") \o "Architecture\n" \o generate_diagrams(m, depOrder) \o "\n\n"
        \o "## " \o Emoji("open_folder") \o "Project Structure\n" \o m.structure \o "\n\n"
        \o "## " \o Emoji("gear") \o "Installation\n" \o _generate_strict_install(m, langs, pyOrder)
        \o "## " \o Emoji("rocket") \o "Usage\n" \o _generate_strict_usage(m, langs)
        \o (IF Len(m.api_endpoints) > 0 THEN _generate_api_section(m) ELSE "")
        \o (IF m.env_vars # {} THEN _generate_env_section(m) ELSE "")
        \o (IF m.docker.dockerfile \/ m.docker.compose THEN _generate_docker_section(m) ELSE "")
        \o (IF Len(m.services) > 0 THEN _generate_services_section(m) ELSE "")
        \o ScriptsSection(m)
        \o DependenciesSection(m, langs)
        \o TestingSection(m, langs)
        \o _generate_health_section(m)
        \o "## " \o Emoji("handshake") \o "Contributing\n1. Fork the Project\n"
        \o "2. Create your Feature Branch\n3. Commit your Changes\n4. Push to the Branch\n"
        \o "5. Open a Pull Request\n\n"
        \o _generate_next_steps_section(m)
        \o "## " \o Emoji("page") \o "License\nThis project is licensed under the **"
        \o m.license \o "**."

\* build_markdown, when it does not raise
build_markdown(m, tpl, pyOrder, depOrder) ==
    IF tpl = "Minimal" THEN MinimalMarkdown(m, pyOrder)
    ELSE DetailedMarkdown(m, pyOrder, depOrder)

Templates == {"Minimal", "Detailed", "minimal"}

\* the orders list(set) can give the Python dependencies where the install steps use them
PyOrders(m) ==
    IF "Python" \in m.languages /\ ~Truthy(m.python_requirements_path)
    THEN Perms(m.dependencies["Python"]) ELSE {<<>>}

\* a build_markdown that consumes the description it prints
BuildMarkdown_consuming ==
    /\ pc = "build_markdown"
    /\ \E t \in Templates, pyOrder \in PyOrders(metadata),
          depOrder \in Perms(DiagramDeps(metadata)) :
        /\ template' = t
        /\ result' = IF BuildRaises(metadata, t)
                     THEN Raised("build_markdown", "TypeError or AttributeError")
                     ELSE Returned(build_markdown(metadata, t, pyOrder, depOrder))
    /\ metadata' = [metadata EXCEPT !.description = Str("")]
    /\ pc' = "cleanup"
    /\ UNCHANGED <<original_path, path, is_remote, temp_dir, service_info, localKind,
                   tree, tmpDir, cloned, pending, walked, tree_lines, opened,
                   active, other>>

BuildMarkdown ==
    /\ pc = "build_markdown"
    /\ \E t \in Templates, pyOrder \in PyOrders(metadata),
          depOrder \in Perms(DiagramDeps(metadata)) :
        /\ template' = t
        /\ result' = IF BuildRaises(metadata, t)
                     THEN Raised("build_markdown", "TypeError or AttributeError")
                     ELSE Returned(build_markdown(metadata, t, pyOrder, depOrder))
    /\ pc' = "cleanup"
    /\ UNCHANGED <<original_path, path, is_remote, temp_dir, metadata, service_info, localKind,
                   tree, tmpDir, cloned, pending, walked, tree_lines, opened,
                   active, other>>

\* a finally clause that removes the scanned directory, self.path
Cleanup_scannedPath ==
    /\ pc = "cleanup"
    /\ \E outcome \in RmtreeOutcomes :
         LET disk == cleanup(Str(path), Disk(localKind, tree, tmpDir), outcome)
         IN  localKind' = disk.localKind /\ tree' = disk.tree /\ tmpDir' = disk.tmpDir
    /\ pc' = "done"
    /\ UNCHANGED <<original_path, path, is_remote, temp_dir, metadata, service_info,
                   cloned, pending, walked, tree_lines, opened, result, template,
                   active, other>>

\* the finally clause of generate_readme
Cleanup ==
    /\ pc = "cleanup"
    /\ \E outcome \in RmtreeOutcomes :
         LET disk == cleanup(temp_dir, Disk(localKind, tree, tmpDir), outcome)
         IN  localKind' = disk.localKind /\ tree' = disk.tree /\ tmpDir' = disk.tmpDir
    /\ pc' = "done"
    /\ UNCHANGED <<original_path, path, is_remote, temp_dir, metadata, service_info,
                   cloned, pending, walked, tree_lines, opened, result, template,
                   active, other>>

Next ==
    \/ SetupPathRemote
    \/ SetupPathLocal
    \/ ScanLicense
    \/ ScanTreeDir
    \/ ScanFinish
    \/ BuildMarkdown
    \/ Cleanup

Spec == Init /\ [][Next]_vars

(***************************************************************************)
(* Two invocations of generate_readme, interleaved                         *)
(***************************************************************************)
\* the running invocation: the attributes of its scanner, the locals of its frames and the
\* repository it works on
Snapshot ==
    [original_path |-> original_path, path |-> path, is_remote |-> is_remote,
     temp_dir |-> temp_dir, metadata |-> metadata, service_info |-> service_info,
     localKind |-> localKind, tree |-> tree, tmpDir |-> tmpDir, cloned |-> cloned, pc |-> pc,
     pending |-> pending, walked |-> walked, tree_lines |-> tree_lines, opened |-> opened,
     template |-> template, result |-> result]

\* an invocation right after "scanner = DeepScanner(path, context)"
Fresh(inp, lk, tr) ==
    [original_path |-> inp, path |-> inp,
     is_remote |-> (StartsWith(inp, "http") \/ EndsWith(inp, ".git")),
     temp_dir |-> None, metadata |-> InitialMetadata, service_info |-> <<>>,
     localKind |-> lk, tree |-> tr, tmpDir |-> "absent", cloned |-> {}, pc |-> "setup_path",
     pending |-> <<>>, walked |-> <<>>, tree_lines |-> <<>>, opened |-> {},
     template |-> "", result |-> NoResult]

\* a scanner class whose metadata dict is one object shared by its instances
OwnFields_sharedMetadata == DOMAIN Snapshot \ {"metadata"}

\* what belongs to one invocation alone: __init__ binds every attribute of the scanner to a
\* new object (the dict literals of lines 43-115), generate_readme keeps the scanner in a
\* local, mkdtemp gives each call its own directory, and nothing writes STD_LIBS or
\* IGNORE_DIRS; _api_endpoint_set is created and never used again
OwnFields == DOMAIN Snapshot

\* the repositories the two invocations work on
PairTrees ==
    {[dirs |-> {}, files |-> {[dir |-> <<>>, name |-> "package.json", content |-> PkgFull]}],
     [dirs |-> {},
      files |-> {[dir |-> <<>>, name |-> "app.py", content |-> PyMain],
                 [dir |-> <<>>, name |-> "requirements.txt",
                  content |-> Lines(<<"flask==2.0.0", "requests">>)]}],
     [dirs |-> {<<"svc">>},
      files |-> {[dir |-> <<>>, name |-> "index.js", content |-> JsMain],
                 [dir |-> <<"svc">>, name |-> "requirements.txt",
                  content |-> Lines(<<"flask==2.0.0", "requests">>)]}]}

\* two calls of generate_readme, the first on a local directory and the second on a
\* remote repository; the first is running
InitTwo ==
    \E tr1 \in PairTrees, tr2 \in PairTrees :
        LET s == Fresh("/p", "dir", tr1)
        IN /\ original_path = s.original_path
           /\ path = s.path
           /\ is_remote = s.is_remote
           /\ temp_dir = s.temp_dir
           /\ metadata = s.metadata
           /\ service_info = s.service_info
           /\ localKind = s.localKind
           /\ tree = s.tree
           /\ tmpDir = s.tmpDir
           /\ cloned = s.cloned
           /\ pc = s.pc
           /\ pending = s.pending
           /\ walked = s.walked
           /\ tree_lines = s.tree_lines
           /\ opened = s.opened
           /\ template = s.template
           /\ result = s.result
           /\ active = 1
           /\ other = Fresh("https://github.com/o/r", "missing", tr2)

\* the scheduler suspends the running invocation and resumes the other one, which finds
\* what is its own as it left it and what is shared as the suspended invocation leaves it
Switch ==
    /\ other # NoInvocation
    /\ other.pc # "done"
    /\ LET s == [f \in DOMAIN Snapshot |-> IF f \in OwnFields THEN other[f] ELSE Snapshot[f]]
       IN /\ original_path' = s.original_path
          /\ path' = s.path
          /\ is_remote' = s.is_remote
          /\ temp_dir' = s.temp_dir
          /\ metadata' = s.metadata
          /\ service_info' = s.service_info
          /\ localKind' = s.localKind
          /\ tree' = s.tree
          /\ tmpDir' = s.tmpDir
          /\ cloned' = s.cloned
          /\ pc' = s.pc
          /\ pending' = s.pending
          /\ walked' = s.walked
          /\ tree_lines' = s.tree_lines
          /\ opened' = s.opened
          /\ template' = s.template
          /\ result' = s.result
    /\ active' = 3 - active
    /\ other' = Snapshot

NextTwo ==
    \/ SetupPathRemote
    \/ SetupPathLocal
    \/ ScanLicense
    \/ ScanTreeDir
    \/ ScanFinish
    \/ BuildMarkdown
    \/ Cleanup
    \/ Switch

SpecTwo == InitTwo /\ [][NextTwo]_vars

(***************************************************************************)
(* build_markdown on its own: a scanner whose metadata a scan has filled    *)
(***************************************************************************)
\* metadata with each optional section of the detailed layout present or absent
SectionMetadata ==
    {[InitialMetadata EXCEPT
         !.project_name = Str("p"),
         !.description = Str("A project."),
         !.structure = Fence \o "\np/\n" \o Fence,
         !.languages = {"Python"},
         !.stats.files["Python"] = 1,
         !.tech_stack_details.frameworks = IF tech THEN {"Flask"} ELSE {},
         !.api_endpoints = IF api THEN <<"GET /h">> ELSE <<>>,
         !.env_vars = IF env THEN {"PORT"} ELSE {},
         !.docker.dockerfile = docker,
         !.services = IF svc THEN <<[name |-> "svc", path |-> "svc", languages |-> <<"Python">>]>>
                      ELSE <<>>,
         !.scripts = IF scr THEN Dict(<< <<"start", Str("node index.js")>> >>) ELSE Dict(<<>>),
         !.dependencies["Python"] = IF deps THEN {"flask"} ELSE {},
         !.tests = tst[1],
         !.stats.test_files = tst[2]] :
       tech \in BOOLEAN, api \in BOOLEAN, env \in BOOLEAN, docker \in BOOLEAN,
       svc \in BOOLEAN, scr \in BOOLEAN, deps \in BOOLEAN,
       tst \in {<< <<>>, 0 >>, << <<"pytest">>, 0 >>, << <<>>, 1 >>}}

\* scan has returned on a local directory: build_markdown is the next call
InitBuild ==
    /\ original_path = "/p"
    /\ path = "/p"
    /\ is_remote = FALSE
    /\ temp_dir = None
    /\ metadata \in SectionMetadata
    /\ service_info = <<>>
    /\ localKind = "dir"
    /\ tree = EmptyTree
    /\ tmpDir = "absent"
    /\ cloned = {}
    /\ pc = "build_markdown"
    /\ pending = <<>>
    /\ walked = <<<<>>>>
    /\ tree_lines = <<>>
    /\ opened = {}
    /\ template = ""
    /\ result = NoResult
    /\ active = 1
    /\ other = NoInvocation

NextBuild ==
    \/ BuildMarkdown
    \/ Cleanup

SpecBuild == InitBuild /\ [][NextBuild]_vars

\* the directory a scan of generate_readme(inp, ...) walks
ScanRoot(inp) == IF StartsWith(inp, "http") \/ EndsWith(inp, ".git") THEN TempDir ELSE inp

\* the metadata setup_path can leave when generate_readme(inp, ...) runs alone
NamedMetadata(inp) ==
    IF StartsWith(inp, "http") \/ EndsWith(inp, ".git")
    THEN {RemoteNames(InitialMetadata, inp)}
    ELSE {LocalNames([InitialMetadata EXCEPT !.project_name = Str(BaseName(inp))], origin) :
              origin \in Origins}

\* the states the walk of _scan_tree can end in, from the state st with the directories
\* todo still to be yielded, over every order the filesystem can list entries in
RECURSIVE WalkResults(_, _, _, _)
WalkResults(tr, absPath, st, todo) ==
    IF todo = <<>> THEN {st}
    ELSE LET root == Head(todo)
             absRoot == Split(absPath, "/") \o root
         IN UNION {
              LET dirs == FilterDirs(listedDirs)
                  ci == EndsWith(JoinPath(absRoot), ".github") /\ "workflows" \in Range(dirs)
                  st1 == ScanFiles([m |-> [st.m EXCEPT !.stats.has_ci = @ \/ ci],
                                    si |-> RegisterService(st.si, root),
                                    opened |-> st.opened], absRoot, root, files)
              IN WalkResults(tr, absPath,
                             [m |-> st1.m, si |-> st1.si, opened |-> st1.opened,
                              lines |-> st.lines \o TreeLinesOf(root, files)],
                             [i \in 1..Len(dirs) |-> Append(root, dirs[i])] \o Tail(todo))
              : listedDirs \in Perms(SubDirs(tr, root)), files \in Perms(FilesIn(tr, root))}

\* the metadata scan() can leave when generate_readme(inp, ...) runs alone on the tree tr
ScanResults(inp, tr) ==
    {LET m1 == [st.m EXCEPT !.structure =
                    Fence \o "text\n.\n" \o Join("\n", st.lines) \o "\n" \o Fence]
         m2 == _infer_tech_stack(_finalize_services(m1, st.si))
     IN IF Truthy(m2.description) \/ ~IsStr(m2.project_name) THEN m2
        ELSE [m2 EXCEPT !.description = Str(_generate_smart_description(m2))]
     : st \in UNION {WalkResults(tr, ScanRoot(inp),
                                 [m |-> m0, si |-> <<>>, opened |-> {}, lines |-> <<>>],
                                 <<<<>>>>) : m0 \in NamedMetadata(inp)}}

\* the documents generate_readme(inp, ...) can return when it runs alone on the tree tr
SoloDocuments(inp, tr) ==
    UNION {{build_markdown(m, t, pyOrder, depOrder) :
                t \in {t \in Templates : ~BuildRaises(m, t)},
                pyOrder \in PyOrders(m), depOrder \in Perms(DiagramDeps(m))} :
           m \in {m \in ScanResults(inp, tr) : IsStr(m.project_name)}}


(***************************************************************************)
(* Properties                                                              *)
(***************************************************************************)
ScanStarted == Len(walked) > 0
ScanComplete == pc \in {"build_markdown", "cleanup", "done"} /\ ScanStarted
                /\ ~(result.kind = "raised" /\ result.stage = "scan")
WalkComplete == ScanStarted /\ pending = <<>>

Ignored(dir) == \E i \in 1..Len(dir) : dir[i] \in IGNORE_DIRS

\* the files of the tree that lie outside every deny-listed directory
VisibleFiles == {f \in tree.files : ~Ignored(f.dir)}

\* C1: a scan that has started on a directory, whatever its manifests and sources hold,
\* is followed by a build that returns a document: generate_readme never ends with an
\* exception raised by scan or build_markdown.
C1_MalformedFileNeverAborts ==
    pc = "done" /\ ScanStarted => result.kind = "doc"

\* C2: once generate_readme has returned or raised for a remote input, the temporary
\* clone directory no longer exists, also when the removal of an entry failed.
C2_TempDirRemoved ==
    pc = "done" /\ is_remote => tmpDir = "absent"

\* C3: after a scan no recorded dependency name of any ecosystem is the empty string.
C3_NoEmptyDependencyName ==
    ScanComplete => \A l \in Langs : "" \notin metadata.dependencies[l]

ReqOperators == {"==", ">=", "<=", ">", "<", "~="}

\* the text of a requirement line to the left of its first operator
DeclaredName(line) ==
    LET s == Strip(line)
        at == {Find(s, op) : op \in ReqOperators} \ {0}
    IN  IF at = {} THEN s
        ELSE Strip(SubSeq(s, 1, (CHOOSE i \in at : \A j \in at : i <= j) - 1))

IsPackageLine(line) == Strip(line) # "" /\ ~StartsWith(Strip(line), "#")

\* a package name, optionally followed by an operator and a version
IsDeclaration(line) ==
    /\ IsPackageLine(line)
    /\ DeclaredName(line) # ""
    /\ CharsOf(DeclaredName(line)) \subseteq WordChars \cup {"-", "."}

\* the requirement lines of the visible requirements.txt files
VisibleReqLines ==
    UNION {Range(f.content.v) :
             f \in {f \in VisibleFiles : f.name = "requirements.txt" /\ f.content # Malformed}}

NoSourceFiles == \A f \in VisibleFiles : SplitExt(f.name) # ".py"

\* C4: for requirement lines that are a package name optionally followed by an operator
\* and a version, the recorded Python names are exactly the texts left of the first operator.
C4_RequirementNames ==
    ScanComplete /\ NoSourceFiles /\ (\A l \in VisibleReqLines : IsPackageLine(l) => IsDeclaration(l))
    => metadata.dependencies["Python"] = {DeclaredName(l) : l \in {l \in VisibleReqLines : IsPackageLine(l)}}

\* the Dependency records the scan result holds for a language: the metadata keeps a set
\* of names per language, so every record is a runtime one without a version
ExtractedDependencies(m, l) ==
    {[name |-> n, version |-> None, dev |-> FALSE] : n \in m.dependencies[l]}

\* the package.json documents in visible directories that parse completely
ParsedPackages ==
    {f.content : f \in {f \in VisibleFiles :
        /\ f.name = "package.json" /\ f.content # Malformed /\ IsDict(f.content)
        /\ IsDict(DictGet(f.content, "dependencies", Dict(<<>>)))
        /\ IsDict(DictGet(f.content, "devDependencies", Dict(<<>>)))}}

\* C5: every key under "dependencies" is recorded as a runtime dependency and every key
\* under "devDependencies" as a development dependency.
C5_RuntimeAndDevelopmentKept ==
    ScanComplete =>
        \A d \in ParsedPackages :
            /\ \A k \in Range(DictKeys(DictGet(d, "dependencies", Dict(<<>>)))) :
                   \E r \in ExtractedDependencies(metadata, "Node.js") : r.name = k /\ ~r.dev
            /\ \A k \in Range(DictKeys(DictGet(d, "devDependencies", Dict(<<>>)))) :
                   \E r \in ExtractedDependencies(metadata, "Node.js") : r.name = k /\ r.dev

\* C6: requirements lines 'flask==2.0.0' and 'requests' yield flask with version 2.0.0 and
\* requests without a version; "dependencies": {"express": "^4.18.0"} yields express with
\* version ^4.18.0.
C6_VersionsCarried ==
    ScanComplete =>
        /\ {"flask==2.0.0", "requests"} \subseteq VisibleReqLines =>
              /\ [name |-> "flask", version |-> Str("2.0.0"), dev |-> FALSE]
                     \in ExtractedDependencies(metadata, "Python")
              /\ [name |-> "requests", version |-> None, dev |-> FALSE]
                     \in ExtractedDependencies(metadata, "Python")
        /\ PkgFull \in ParsedPackages =>
              [name |-> "express", version |-> Str("^4.18.0"), dev |-> FALSE]
                  \in ExtractedDependencies(metadata, "Node.js")

\* the manifests whose parser swallows an exception
ParseFails(f) ==
    \/ /\ f.name = "package.json"
       /\ \/ f.content = Malformed
          \/ ~IsDict(f.content)
          \/ ~IsDict(DictGet(f.content, "dependencies", Dict(<<>>)))
          \/ ~IsDict(DictGet(f.content, "devDependencies", Dict(<<>>)))
    \/ f.name = "requirements.txt" /\ f.content = Malformed

C7Fields ==
    <<metadata.project_name, metadata.description, metadata.entry_point, metadata.entry_points,
      metadata.scripts, metadata.dependencies, metadata.tests>>

\* C7: a step of the walk over a directory whose files are all manifests that fail to parse
\* leaves project_name, description, entry points, scripts, dependencies and tests unchanged.
C7_FailedManifestContributesNothing ==
    [][(/\ pc = "scan_tree"
        /\ pending # <<>>
        /\ FilesIn(tree, Head(pending)) # {}
        /\ \A f \in FilesIn(tree, Head(pending)) : ParseFails(f))
       => C7Fields' = C7Fields]_vars

SourceExts == {".py", ".js", ".ts", ".java", ".go"}

\* the number of lines the rendered tree has for the visible part of the tree
VisibleTreeLines ==
    Cardinality({d \in tree.dirs : ~Ignored(d) /\ Len(d) < 4})
    + Cardinality({f \in VisibleFiles : Len(f.dir) < 4 /\ \E e \in TreeExts : EndsWith(f.name, e)})

PathComponents(v) == IF v = None THEN {} ELSE Range(Split(v.v, "/"))

\* C8: nothing below a deny-listed directory contributes to the scan: it is not walked,
\* not opened by a parser or the analyser, not counted, not registered as a service, not
\* recorded as a manifest path and not shown in the tree.
C8_IgnoredDirsContributeNothing ==
    /\ \A i \in 1..Len(walked) : ~Ignored(walked[i])
    /\ \A o \in opened : ~Ignored(o.file)
    /\ \A i \in 1..Len(service_info) : service_info[i].name \notin IGNORE_DIRS
    /\ \A i \in 1..Len(tree_lines) : \A d \in IGNORE_DIRS : ~EndsWith(tree_lines[i], TreeBranch \o d \o "/")
    /\ (PathComponents(metadata.node_package_json_path)
          \cup PathComponents(metadata.python_requirements_path)) \cap IGNORE_DIRS = {}
    /\ WalkComplete =>
          /\ Range(walked) = {d \in tree.dirs \cup {<<>>} : ~Ignored(d)}
          /\ {o.file : o \in opened} =
                {Append(f.dir, f.name) : f \in {f \in VisibleFiles :
                    f.name \in {"package.json", "requirements.txt"}
                    \/ Lower(SplitExt(f.name)) \in SourceExts}}
          /\ metadata.stats.files["Python"] + metadata.stats.files["Node.js"]
               + metadata.stats.files["Java"] + metadata.stats.files["Go"]
             = Cardinality({f \in VisibleFiles : Lower(SplitExt(f.name)) \in SourceExts})
          /\ Len(tree_lines) = VisibleTreeLines
          /\ {service_info[i].name : i \in 1..Len(service_info)}
             = {d[1] : d \in {d \in tree.dirs : ~Ignored(d)}}

\* a finished run over a tree with manifests and sources below a deny-listed directory that
\* itself lies below a scanned directory
C8_Witness ==
    /\ pc = "done"
    /\ result.kind = "doc"
    /\ \E f \in tree.files : Len(f.dir) >= 2 /\ f.dir[Len(f.dir)] \in IGNORE_DIRS
          /\ f.name \in {"package.json", "util.py"}

\* C9: a local path that is empty, missing or a regular file is rejected by setup_path,
\* before any scanning starts.
C9_InvalidLocalPathRejected ==
    ~is_remote /\ localKind # "dir" =>
        /\ pc \in {"setup_path", "cleanup", "done"}
        /\ pc # "setup_path" => result.kind = "raised" /\ result.stage = "setup_path"

\* the accepted URL pattern: the host, then exactly two path segments of alphanumerics,
\* hyphen, underscore and dot, with an optional ".git" suffix and trailing slash
AcceptedUrl(u) ==
    LET rest == IF StartsWith(u, "https://github.com/") THEN SubSeq(u, 20, Len(u))
                ELSE IF StartsWith(u, "git@github.com:") THEN SubSeq(u, 16, Len(u))
                ELSE ""
        noSlash == IF EndsWith(rest, "/") THEN SubSeq(rest, 1, Len(rest) - 1) ELSE rest
        noGit == IF EndsWith(noSlash, ".git") THEN SubSeq(noSlash, 1, Len(noSlash) - 4) ELSE noSlash
        segs == Split(noGit, "/")
    IN  /\ Len(segs) = 2
        /\ \A i \in 1..2 : segs[i] # "" /\ CharsOf(segs[i]) \subseteq WordChars \cup {"-", "."}

\* C10: no clone is attempted for a URL that fails the accepted pattern.
C10_BadUrlNeverCloned ==
    \A u \in cloned : AcceptedUrl(u)

\* the owner and repository segments of an accepted URL
UrlSegments(u) ==
    LET rest == IF StartsWith(u, "https://github.com/") THEN SubSeq(u, 20, Len(u))
                ELSE SubSeq(u, 16, Len(u))
        noSlash == IF EndsWith(rest, "/") THEN SubSeq(rest, 1, Len(rest) - 1) ELSE rest
        noGit == IF EndsWith(noSlash, ".git") THEN SubSeq(noSlash, 1, Len(noSlash) - 4) ELSE noSlash
    IN  Split(noGit, "/")

CloneSucceeded == is_remote /\ path = TempDir

\* C11: every accepted URL form is treated as remote, and once its clone has succeeded the
\* derived username and repo_name are exactly the owner and the repository of the URL.
C11_RemoteNamesDerived ==
    AcceptedUrl(original_path) =>
        /\ is_remote
        /\ CloneSucceeded =>
              /\ metadata.username = UrlSegments(original_path)[1]
              /\ metadata.repo_name = UrlSegments(original_path)[2]

DocumentBuilt == pc \in {"cleanup", "done"} /\ result.kind = "doc"

\* the header lines of a document: the title and the second-level headers
Headers(doc) ==
    SelectSeq(Split(doc, "\n"), LAMBDA l : StartsWith(l, "# ") \/ StartsWith(l, "## "))

\* the headers hs hold, in this order, one header for each title of ts
RECURSIVE HeadersInOrder(_, _)
HeadersInOrder(hs, ts) ==
    IF ts = <<>> THEN TRUE
    ELSE IF hs = <<>> THEN FALSE
    ELSE IF Contains(Head(hs), Head(ts)) THEN HeadersInOrder(Tail(hs), Tail(ts))
    ELSE HeadersInOrder(Tail(hs), ts)

DetailedSections ==
    <<"# ", "Features", "Installation", "Usage", "Project Structure", "Architecture", "Scripts",
      "Dependencies", "Screenshot", "Contributing", "License">>

\* C12: the document built with the detailed template has, in this order, a header for the
\* title, features, installation, usage, project structure, architecture, scripts,
\* dependencies, screenshots, contributing and license, also when no script and no
\* dependency was found.
C12_DetailedSectionsInOrder ==
    DocumentBuilt /\ template = "Detailed" =>
        HeadersInOrder(Headers(result.doc), DetailedSections)

\* C13: the document built with the minimal template has a title line starting with "# ",
\* a "## Installation" header, a "## Usage" header and a non-empty description, also for
\* a directory without sources and manifests.
C13_MinimalSections ==
    DocumentBuilt /\ template = "Minimal" =>
        /\ StartsWith(result.doc, "# ")
        /\ \E h \in Range(Headers(result.doc)) : StartsWith(h, "## Installation")
        /\ \E h \in Range(Headers(result.doc)) : StartsWith(h, "## Usage")
        /\ Truthy(metadata.description)
        /\ Contains(result.doc, Format(metadata.description))

\* the lines of ls after the first second-level header naming title
RECURSIVE AfterHeader(_, _)
AfterHeader(ls, title) ==
    IF ls = <<>> THEN <<>>
    ELSE IF StartsWith(Head(ls), "## ") /\ Contains(Head(ls), title) THEN Tail(ls)
    ELSE AfterHeader(Tail(ls), title)

\* the lines of ls before the next second-level header
RECURSIVE UntilHeader(_)
UntilHeader(ls) ==
    IF ls = <<>> \/ StartsWith(Head(ls), "## ") THEN <<>>
    ELSE <<Head(ls)>> \o UntilHeader(Tail(ls))

\* the body of the section of doc whose header names title
SectionLines(doc, title) == UntilHeader(AfterHeader(Split(doc, "\n"), title))

\* ls holds a fenced block with at least one non-blank line in it
HasCodeBlock(ls) ==
    \E i, j \in 1..Len(ls) :
        /\ i + 1 < j
        /\ StartsWith(ls[i], Fence)
        /\ ls[j] = Fence
        /\ \A k \in (i + 1)..(j - 1) : ~StartsWith(ls[k], Fence)
        /\ \E k \in (i + 1)..(j - 1) : Strip(ls[k]) # ""

\* C14: the Usage section of every generated document, also when no language was detected,
\* holds at least one fenced code block with a run command.
C14_UsageHasCodeBlock ==
    DocumentBuilt => HasCodeBlock(SectionLines(result.doc, "Usage"))

\* the lines of ls before the first line that is mark, and the lines after it
RECURSIVE Before(_, _)
Before(ls, mark) ==
    IF ls = <<>> \/ Head(ls) = mark THEN <<>> ELSE <<Head(ls)>> \o Before(Tail(ls), mark)

RECURSIVE After(_, _)
After(ls, mark) ==
    IF ls = <<>> THEN <<>> ELSE IF Head(ls) = mark THEN Tail(ls) ELSE After(Tail(ls), mark)

Directions == {"TD", "TB", "LR", "RL", "BT"}

\* a diagram: one opening mermaid fence, then one closing fence, a graph or flowchart
\* declaration with a direction, and at least one edge
WellFormedDiagram(ls) ==
    LET opening == {i \in 1..Len(ls) : ls[i] = Fence \o "mermaid"}
        closing == {i \in 1..Len(ls) : ls[i] = Fence}
    IN  /\ Cardinality(opening) = 1
        /\ Cardinality(closing) = 1
        /\ \A i \in opening, j \in closing : i < j
        /\ \E i \in 1..Len(ls), d \in Directions :
               Strip(ls[i]) \in {"graph " \o d, "flowchart " \o d}
        /\ \E i \in 1..Len(ls) : Contains(ls[i], "-->")

\* C15: the architecture diagram and the workflow diagram of a generated document each
\* have exactly one opening mermaid fence followed by exactly one closing fence, declare
\* a graph or flowchart with a direction token, and hold at least one node or edge.
C15_DiagramsWellFormed ==
    DocumentBuilt /\ template # "Minimal" =>
        LET ls == SectionLines(result.doc, "Architecture")
        IN  /\ WellFormedDiagram(Before(After(ls, "### Component Architecture"),
                                        "### Application Flow"))
            /\ WellFormedDiagram(After(ls, "### Application Flow"))

\* the languages the description names as "built with"
NamedPrimary ==
    IF IsStr(metadata.description)
    THEN {l \in Langs : Contains(metadata.description.v, " built with **" \o l \o "**")}
    ELSE {}

\* the languages with the greatest number of recognized source files
MostFiles ==
    {l \in metadata.languages :
        \A k \in metadata.languages : metadata.stats.files[k] <= metadata.stats.files[l]}

\* C16: when several languages are detected and the file counts have no tie, the language the
\* generated description names as "built with" is the one with the most source files.
C16_PrimaryLanguageByFileCount ==
    ScanComplete /\ Cardinality(metadata.languages) >= 2 /\ Cardinality(MostFiles) = 1
        => NamedPrimary \subseteq MostFiles

\* the indicator files of each ecosystem
Indicators(l) ==
    CASE l = "Python" -> {"requirements.txt", "setup.py", "pyproject.toml", "Pipfile"}
      [] l = "Node.js" -> {"package.json"}
      [] l = "Java" -> {"pom.xml", "build.gradle"}
      [] l = "Go" -> {"go.mod"}

\* C17: one indicator file of an ecosystem anywhere in the scanned tree suffices for the
\* scan to report that ecosystem's language, also without a source file of the language.
C17_IndicatorFileSuffices ==
    ScanComplete =>
        \A l \in Langs :
            (\E f \in VisibleFiles : f.name \in Indicators(l)) => l \in metadata.languages

\* C18: the stages of generate_readme run in the order setup_path, scan, build_markdown,
\* cleanup: scan starts only from a setup_path that succeeded (for a remote input, with the
\* clone in place), build_markdown starts only from a completed scan, every exit of the three
\* stages, by return or by exception, leads to cleanup, nothing runs after cleanup, and a
\* document is returned only when no stage raised.
C18_StagesInOrder ==
    [][/\ (pc' = "scan" /\ pc # "scan") =>
             /\ pc = "setup_path"
             /\ result' = NoResult
             /\ is_remote => tmpDir' = "present" /\ path' = TempDir /\ original_path \in cloned'
             /\ ~is_remote => localKind # "missing"
       /\ (pc' = "scan_tree" /\ pc # "scan_tree") => pc = "scan" /\ result' = NoResult
       /\ (pc' = "build_markdown" /\ pc # "build_markdown") =>
             /\ pc = "scan_tree"
             /\ WalkComplete
             /\ result' = NoResult
             /\ Truthy(metadata'.description)
       /\ (pc' = "cleanup" /\ pc # "cleanup") =>
             /\ pc \in {"setup_path", "scan", "scan_tree", "build_markdown"}
             /\ result'.kind \in {"raised", "doc"}
             /\ result'.kind = "doc" <=> pc = "build_markdown" /\ result'.kind # "raised"
       /\ (result' # result) => result = NoResult /\ pc' = "cleanup"
       /\ (pc' = "done" /\ pc # "done") => pc = "cleanup" /\ result' = result
       /\ pc # "done"
      ]_vars

\* a remote run that went through every stage and returned a document
C18_Witness ==
    /\ pc = "done"
    /\ is_remote
    /\ result.kind = "doc"
    /\ ScanStarted


\* what one invocation holds when its scan has returned and when it has returned itself is
\* what a run of that invocation alone can hold
RunsAsAlone(s) ==
    /\ s.pc = "build_markdown" => s.metadata \in ScanResults(s.original_path, s.tree)
    /\ s.result.kind = "doc" => s.result.doc \in SoloDocuments(s.original_path, s.tree)
    /\ s.result.kind = "raised" =>
           s.is_remote /\ s.result = Raised("setup_path", "Clone failed")

\* C19: two generate_readme invocations on different repositories, interleaved in any
\* order, share no mutable state: the metadata and the document of each are those the
\* invocation produces when it runs alone on its repository.
C19_InterleavedRunsIndependent ==
    other # NoInvocation => RunsAsAlone(Snapshot) /\ RunsAsAlone(other)

\* the second invocation has returned its document while the first one is suspended in
\* the middle of its walk, a directory still to be visited
C19_Witness ==
    /\ active = 2 /\ pc = "done" /\ result.kind = "doc"
    /\ other.pc = "scan_tree" /\ other.walked # <<>> /\ other.pending # <<>>


\* the metadata the walk that is about to start can end with
WalkOutcomes ==
    {st.m : st \in WalkResults(tree, path,
                               [m |-> metadata, si |-> service_info, opened |-> opened,
                                lines |-> tree_lines], pending)}

\* the documents build_markdown can return for the scanned metadata and the template t
Documents(t) ==
    {build_markdown(metadata, t, pyOrder, depOrder) :
         pyOrder \in PyOrders(metadata), depOrder \in Perms(DiagramDeps(metadata))}

\* C20: two runs over the same directory tree produce identical metadata and a
\* byte-identical document, whatever order the filesystem lists the entries in and
\* whatever order a set is iterated in.
C20_RunsAgree ==
    /\ (pc = "scan_tree" /\ walked = <<>>) => Cardinality(WalkOutcomes) = 1
    /\ pc = "build_markdown" =>
           \A t \in Templates : ~BuildRaises(metadata, t) => Cardinality(Documents(t)) = 1


\* the metadata without the rendered tree and the recorded manifest paths
Counted(m) ==
    [m EXCEPT !.structure = "", !.node_package_json_path = None,
              !.python_requirements_path = None]

\* the tree whose files all lie in the directory d, moved up to level 3
LiftedTree(d) ==
    [dirs |-> {SubSeq(d, 1, j) : j \in 1..3},
     files |-> {[f EXCEPT !.dir = SubSeq(d, 1, 3)] : f \in tree.files}]

\* the walk is over and every file of the tree lies in one directory below the depth cap
DeepScanDone ==
    /\ pc = "scan_tree" /\ WalkComplete /\ tree.files # {}
    /\ \E d \in tree.dirs : Len(d) >= 4 /\ \A f \in tree.files : f.dir = d

\* C21: the depth cap of the rendered tree affects only the tree string: manifests and
\* sources below level 3 are opened, and the metadata the walk leaves (rendered tree and
\* manifest paths apart) is the one it leaves when the same files lie at level 3, while
\* the tree lines show the three directories above the cap and nothing else.
C21_DepthCapOnlyTree ==
    DeepScanDone =>
        LET d == CHOOSE d \in tree.dirs : Len(d) >= 4 /\ \A f \in tree.files : f.dir = d
        IN /\ Counted(metadata) \in
                {Counted(st.m) : st \in UNION {
                    WalkResults(LiftedTree(d), path,
                                [m |-> m0, si |-> <<>>, opened |-> {}, lines |-> <<>>],
                                <<<<>>>>) : m0 \in NamedMetadata(original_path)}}
           /\ {o.file : o \in opened} = {Append(f.dir, f.name) : f \in tree.files}
           /\ Len(tree_lines) = 3

\* a finished walk over a chain of four directories whose innermost one holds a
\* package.json and a Python source, both opened and counted
C21_Witness ==
    /\ DeepScanDone
    /\ {f.name : f \in tree.files} = {"package.json", "util.py"}
    /\ Cardinality(opened) = 2
    /\ metadata.languages = {"Node.js", "Python"}
    /\ metadata.stats.files["Python"] = 1
    /\ "express" \in metadata.dependencies["Node.js"]


\* C22: document assembly is read-only: a call of build_markdown leaves the metadata, the
\* service table and the record of opened files as they were, touches neither the
\* filesystem nor the network (no clone, no change of the tree or of the temporary
\* directory), and the document it returned is one that build_markdown returns again
\* from the metadata it left, for the same template.
C22_AssemblyReadOnly ==
    [][pc = "build_markdown" /\ pc' # "build_markdown" =>
          /\ metadata' = metadata
          /\ service_info' = service_info
          /\ opened' = opened
          /\ tree' = tree /\ localKind' = localKind /\ tmpDir' = tmpDir /\ cloned' = cloned
          /\ path' = path /\ temp_dir' = temp_dir
          /\ result'.kind = "doc" =>
                 \E pyOrder \in PyOrders(metadata'), depOrder \in Perms(DiagramDeps(metadata')) :
                     result'.doc = build_markdown(metadata', template', pyOrder, depOrder)
      ]_vars

\* build_markdown has just returned the detailed document of a project with recorded
\* dependencies and scripts, in a clone that is still on disk
C22_Witness ==
    /\ pc = "cleanup" /\ result.kind = "doc" /\ template = "Detailed"
    /\ is_remote /\ tmpDir = "present"
    /\ metadata.dependencies["Node.js"] # {}
    /\ Truthy(metadata.scripts)


\* the entry files a run command of the language l may name: the one detected for l and
\* the default of l
OwnEntries(l, default) ==
    {default} \cup (IF IsStr(metadata.entry_points[l]) THEN {metadata.entry_points[l].v} ELSE {})

\* C23: the run command emitted for a detected language names an entry file detected for
\* that language or the default of that language, never an entry point found in a file of
\* another language.
C23_OwnEntryInCommand ==
    (pc = "build_markdown" /\ ~UsageRaises(metadata, SortedLangs(metadata.languages))) =>
        LET usage == _generate_strict_usage(metadata, SortedLangs(metadata.languages))
        IN /\ ("Python" \in metadata.languages /\ "fastapi" \notin metadata.dependencies["Python"])
                => \E e \in OwnEntries("Python", "main.py") :
                       Contains(usage, "bash\npython " \o e \o "\n")
           /\ ("Node.js" \in metadata.languages /\ ~In("start", metadata.scripts))
                => \E e \in OwnEntries("Node.js", "index.js") :
                       Contains(usage, "bash\nnode " \o e \o "\n")


\* C24: in a Java project without Maven or Gradle, whenever entry_point_cmd and the Java
\* entry file are both set after the scan, the class entry_point_cmd names is declared in
\* that entry file, so the javac line and the java line refer to the same source.
C24_JavaClassInEntryFile ==
    LET entry_file == Or(metadata.entry_points["Java"], metadata.entry_point)
    IN  (/\ pc = "build_markdown"
         /\ "Java" \in metadata.languages
         /\ metadata.build_tools \cap {"Maven", "Gradle"} = {}
         /\ Truthy(metadata.entry_point_cmd) /\ Truthy(entry_file))
        => \E f \in VisibleFiles :
               /\ f.name = entry_file.v
               /\ f.content.t = "text"
               /\ metadata.entry_point_cmd.v \in Range(FindClasses(f.content.v, 1))


\* the visible package.json files of the tree
PackageFiles == {f \in VisibleFiles : f.name = "package.json"}

\* the tree without the package.json files other than the one recorded in
\* node_package_json_path
FirstManifestOnly ==
    [tree EXCEPT !.files = {f \in @ : f.name = "package.json" =>
                               Str(JoinPath(Append(f.dir, f.name))) = metadata.node_package_json_path}]

\* C25: after the walk of a tree with several package.json files, the recorded scripts,
\* project name and description are those the package.json recorded in
\* node_package_json_path (the first one met) gives: a later package.json neither
\* replaces nor erases them.
C25_FirstManifestKept ==
    (pc = "scan_tree" /\ WalkComplete /\ Cardinality(PackageFiles) >= 2) =>
        \E m0 \in NamedMetadata(original_path) :
            \E st \in WalkResults(FirstManifestOnly, path,
                                  [m |-> m0, si |-> <<>>, opened |-> {}, lines |-> <<>>],
                                  <<<<>>>>) :
                /\ metadata.scripts = st.m.scripts
                /\ metadata.project_name = st.m.project_name
                /\ metadata.description = st.m.description


\* the entries of m1 that are set are the same in m2
EntriesKept(m1, m2) ==
    /\ \A l \in DOMAIN m1.entry_points :
           m1.entry_points[l] # None => m2.entry_points[l] = m1.entry_points[l]
    /\ m1.entry_point # None => m2.entry_point = m1.entry_point

\* an entry is set
SomeEntry(m) == m.entry_point # None \/ \E l \in DOMAIN m.entry_points : m.entry_points[l] # None

\* from the metadata of this moment of the walk, no manifest or source file processed
\* next changes an entry that is set
NextFileKeepsEntries ==
    (pc = "scan_tree" /\ SomeEntry(metadata)) =>
        \A f \in FileKinds :
            EntriesKept(metadata,
                        ScanFile([m |-> metadata, si |-> service_info, opened |-> opened],
                                 Split(path, "/"), <<>>, f).m)

\* C26: during a scan, once entry_points[L] of a language L or the legacy entry_point is
\* set it never changes again: no step of the run changes a set entry, and from the
\* metadata of any moment of the walk no manifest or source file, processed next, changes
\* one.
C26_FirstEntryWins ==
    [][EntriesKept(metadata, metadata') /\ NextFileKeepsEntries]_vars

\* the walk is over a directory whose index.js and package.json both name an entry: the
\* one met first, index.js, is the recorded one
C26_Witness ==
    /\ pc = "scan_tree" /\ WalkComplete
    /\ \E f \in tree.files : f.dir = <<>> /\ f.name = "package.json" /\ f.content = PkgFull
    /\ \E f \in tree.files : f.dir = <<>> /\ f.name = "index.js"
    /\ metadata.entry_points["Node.js"] = Str("index.js")
    /\ metadata.entry_point = Str("index.js")
    /\ [file |-> <<"package.json">>, by |-> "_parse_package_json"] \in opened


\* the filesystem of this moment
DiskNow == Disk(localKind, tree, tmpDir)

\* cleanup() called once more, and again, from this moment: what the user named is
\* untouched, and a call after a call that removed the directory changes nothing
CleanupAgainHarmless ==
    \A o1, o2 \in RmtreeOutcomes :
        LET d1 == cleanup(temp_dir, DiskNow, o1)
            d2 == cleanup(temp_dir, d1, o2)
        IN  /\ d1.localKind = localKind /\ d1.tree = tree
            /\ d2.localKind = localKind /\ d2.tree = tree
            /\ d1.tmpDir = "absent" => d2 = d1

\* C27: cleanup never deletes or modifies the path the user supplied: no step changes what
\* the path names or holds; for a local input temp_dir stays None and no temporary
\* directory ever exists or is removed; the only directory a step removes is the one
\* setup_path created with mkdtemp and recorded in temp_dir, for a remote input; cleanup
\* raises nothing, and calling it again is harmless.
C27_CleanupSparesUserPath ==
    [][/\ localKind' = localKind /\ tree' = tree /\ original_path' = original_path
       /\ ~is_remote => temp_dir' = None /\ tmpDir' = "absent" /\ path' = original_path
       /\ tmpDir # tmpDir' => is_remote /\ temp_dir' = Str(TempDir) /\ TempDir # original_path
       /\ pc = "cleanup" => result' = result
       /\ CleanupAgainHarmless]_vars

\* the clone failed: setup_path called cleanup, which removed the temporary directory,
\* and the finally clause called it a second time
C27_Witness ==
    /\ pc = "done" /\ is_remote
    /\ result = Raised("setup_path", "Clone failed")
    /\ temp_dir = Str(TempDir) /\ tmpDir = "absent"
    /\ localKind = "missing" /\ original_path \in cloned


\* the documents of each layout that build_markdown can assemble from the metadata
MinimalLayouts(m) == {MinimalMarkdown(m, o) : o \in PyOrders(m)}
DetailedLayouts(m) ==
    {DetailedMarkdown(m, o, d) : o \in PyOrders(m), d \in Perms(DiagramDeps(m))}

\* C28: build_markdown produces the minimal layout exactly when the template argument is
\* the string "Minimal"; every other value ("Detailed", "minimal", ...) yields the
\* detailed layout, and build_markdown raises nothing for it.
C28_TemplateSelectsLayout ==
    (pc \in {"cleanup", "done"} /\ template # "") =>
        IF template = "Minimal"
        THEN result.kind = "doc" => result.doc \in MinimalLayouts(metadata)
        ELSE /\ result.kind = "doc"
             /\ result.doc \in DetailedLayouts(metadata)
             /\ result.doc \notin MinimalLayouts(metadata)


\* where the lines of doc that start with prefix begin (the line break before them)
LinesWith(doc, prefix) ==
    {i \in 1..(Len(doc) - Len(prefix)) : SubSeq(doc, i, i + Len(prefix)) = "\n" \o prefix}

\* the line of doc that begins after position i
LineAfter(doc, i) == SplitFirst(Slice(doc, i + 1, i + 80), "\n")

\* the label of the entry at i: the text between the brackets
EntryLabel(doc, i) == SplitFirst(Slice(doc, i + 4, i + 80), "]")

\* how many positions of S are at or before i
Rank(S, i) == Cardinality({j \in S : j <= i})

\* the parts of a detailed document: the header of the Table of Contents, the section
\* headers below it, and the entries (the list items between the header and the first
\* section header)
TocParts(doc) ==
    LET heads == LinesWith(doc, "## ")
        toc == {i \in heads :
                   LineAfter(doc, i) = "## " \o Emoji("bookmark_tabs") \o "Table of Contents"}
        sections == {i \in heads : \A t \in toc : i > t}
        entries == {i \in LinesWith(doc, "- [") :
                       (\A t \in toc : i > t) /\ (\A h \in sections : i < h)}
    IN  [toc |-> toc, sections |-> sections, entries |-> entries]

\* the k-th entry of the Table of Contents names the k-th section below it, and there are
\* as many entries as sections
TocAgrees(doc) ==
    LET p == TocParts(doc)
    IN  /\ Cardinality(p.toc) = 1
        /\ Cardinality(p.entries) = Cardinality(p.sections)
        /\ \A e \in p.entries, h \in p.sections :
               Rank(p.entries, e) = Rank(p.sections, h)
                   => Contains(LineAfter(doc, h), EntryLabel(doc, e))

\* C29: in the detailed document the Table of Contents and the body agree: every entry
\* has its section emitted later, every section emitted below the Table of Contents (the
\* optional Tech Stack, API Endpoints, Environment Variables, Docker, Services, Scripts,
\* Dependencies and Testing among them) has an entry, and the entries are in the order
\* of the sections.
C29_TocAgreesWithBody ==
    (pc = "cleanup" /\ template \notin {"", "Minimal"} /\ result.kind = "doc")
        => TocAgrees(result.doc)

\* a detailed document with all eight optional sections was returned: sixteen entries
C29_Witness ==
    /\ pc = "cleanup" /\ template = "minimal" /\ result.kind = "doc"
    /\ _has_tech_stack_details(metadata) /\ Len(metadata.api_endpoints) > 0
    /\ metadata.env_vars # {} /\ metadata.docker.dockerfile /\ Len(metadata.services) > 0
    /\ Truthy(metadata.scripts) /\ AnyDependencies(metadata) /\ HasTests(metadata)
    /\ LET p == TocParts(result.doc)
       IN  /\ Cardinality(p.entries) = 16
           /\ {"Tech Stack", "API Endpoints", "Environment Variables", "Docker", "Services",
               "Scripts", "Dependencies", "Testing"}
                \subseteq {EntryLabel(result.doc, e) : e \in p.entries}


\* every language with a recorded dependency is a detected language
DepsHaveLanguage(m) == \A l \in Langs : m.dependencies[l] # {} => l \in m.languages

\* from the metadata a walk has collected, the manifest or source file processed next
\* leaves every language with a dependency detected
NextFileKeepsLanguages ==
    (pc = "scan_tree" /\ WalkComplete) =>
        \A f \in FileKinds :
            DepsHaveLanguage(ScanFile([m |-> metadata, si |-> service_info, opened |-> opened],
                                      Split(path, "/"), <<>>, f).m)

\* the Dependencies headers of doc, and for each the line below it
DependencyHeads(doc) ==
    {i \in LinesWith(doc, "## ") : LineAfter(doc, i) = "## " \o Emoji("package") \o "Dependencies"}
BelowHeader(doc, i) == LineAfter(doc, i + Len(LineAfter(doc, i)) + 1)

\* the Dependencies section build_markdown assembles from m is empty when no dependency
\* is recorded, and otherwise its header is followed by the block of a detected language
SectionHasBlock(m) ==
    LET sec == DependenciesSection(m, SortedLangs(m.languages))
        header == "## " \o Emoji("package") \o "Dependencies\n"
    IN  IF AnyDependencies(m)
        THEN \E l \in m.languages : StartsWith(sec, header \o "**" \o l \o "**\n- ")
        ELSE sec = ""

\* C30: after any sequence of manifests and source files processed by a scan, every
\* language whose dependency set is non-empty is among the detected languages, so the
\* Dependencies section that build_markdown assembles is never a header with no language
\* block beneath it.
C30_DependenciesHaveLanguage ==
    /\ DepsHaveLanguage(metadata)
    /\ NextFileKeepsLanguages
    /\ pc = "build_markdown" => SectionHasBlock(metadata)

\* a detailed document was returned for a project whose dependencies come from a
\* requirements.txt and a source file: the Dependencies header is followed by a block
C30_Witness ==
    /\ pc = "cleanup" /\ template = "Detailed" /\ result.kind = "doc"
    /\ metadata.dependencies["Python"] # {} /\ metadata.dependencies["Node.js"] # {}
    /\ \E i \in DependencyHeads(result.doc) : BelowHeader(result.doc, i) = "**Node.js**"

====
